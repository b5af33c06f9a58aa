------------------------------ MODULE AuctionHouse ------------------------------
(***************************************************************************)
(* An auction house (AuctionHouse.cpp) between the threads of the maps,    *)
(* where players sell, bid and cancel, and the world thread, which settles *)
(* what was queued for deletion and now and then what is past its time.    *)
(* The map of auctions and the list of removals have a lock; an Auction    *)
(* has none, and is used by pointer after it was looked up.                *)
(*                                                                         *)
(* Each player is in a map of his own.  A mail is what it carries: `held`  *)
(* is the account of a player's money in an auction, `got` whom its item   *)
(* was sent to.  The deposit and the cut are left out.  The queries are    *)
(* performed in order (DatabaseThreads), except the DELETE, which is made  *)
(* at once.  A restart is an orderly one.  What is past its ExpiryTime at  *)
(* a sweep is a choice.                                                    *)
(***************************************************************************)
EXTENDS Integers, Sequences, FiniteSets, SequencesExt

CONSTANTS
  Player,
  Seller,      \* the players who sell
  Auction,     \* the items on offer, each at most once
  MaxPrice,    \* bound on the bids
  Buyout,      \* the buy-out prices, 0 for none
  MaxAsks,     \* bound on the bids and cancellations asked for
  MaxRestarts, \* bound on the restarts of the server
  None         \* nobody

ASSUME AuctionAssumption ==
  /\ IsFiniteSet(Auction) /\ None \notin Player \cup Auction
  /\ Seller \subseteq Player /\ MaxPrice \in Nat \ {0} /\ Buyout \subseteq Nat
  /\ MaxAsks \in Nat /\ MaxRestarts \in Nat

VARIABLES
  house,    \* [Auction -> the fields of the Auction]
  listed,   \* those in auctions
  freed,    \* those deleted
  removal,  \* removalList
  at,       \* [Player -> [pc, auction, price]]: the thread of his map; NoPrice but for a bid
  world,    \* the world thread: "idle", "serving", "settled", or "served" before the sweep
  row,      \* [Auction -> the bidder and bid of its row once the queries are performed, or NoRow]
  unsaved,  \* those whose INSERT is not performed yet
  held,     \* [Auction -> [Player -> money paid into it less money paid back]]
  got,      \* [Auction -> Seq(Player)]: whom the item was sent to
  spoiled,  \* history: [Auction -> what went wrong with it]
  crashed,  \* an Auction was used that is freed
  asks, restarts

memory == <<house, listed, freed, removal>>
base   == <<row, unsaved>>
purses == <<held, got>>
bounds == <<asks, restarts>>
vars   == <<memory, at, world, base, purses, spoiled, crashed, bounds>>

Price  == 0..MaxPrice
NoPrice == -1
NoRow  == [bidder |-> None, bid |-> -1]
Terms(a) == [bidder |-> house[a].bidder, bid |-> house[a].bid]
Cause  == {"overlap", "expired", "served", "again", "ghost", "restart", "dropped"}
Pc     == {"idle", "save", "refund", "set", "test", "mark", "push", "notify"}

TypeOK ==
  /\ house \in [Auction -> [owner : Player \cup {None}, bidder : Player \cup {None},
                            bid : Nat, buyout : Nat, deleted : BOOLEAN,
                            reason : {"none", "expired", "won", "cancelled"}]]
  /\ listed \subseteq Auction /\ freed \subseteq Auction
  /\ removal \in Seq(Auction) /\ world \in {"idle", "serving", "settled", "served"}
  /\ at \in [Player -> [pc : Pc, auction : Auction \cup {None}, price : Price \cup {NoPrice}]]
  /\ row \in [Auction -> [bidder : Player \cup {None}, bid : Nat \cup {-1}]] /\ unsaved \subseteq Auction
  /\ held \in [Auction -> [Player -> Int]] /\ got \in [Auction -> Seq(Player)]
  /\ spoiled \in [Auction -> SUBSET Cause] /\ crashed \in BOOLEAN
  /\ asks \in 0..MaxAsks /\ restarts \in 0..MaxRestarts

Idle == [pc |-> "idle", auction |-> None, price |-> NoPrice]

Init ==
  /\ house = [a \in Auction |-> [owner |-> None, bidder |-> None, bid |-> 0, buyout |-> 0,
                                 deleted |-> FALSE, reason |-> "none"]]
  /\ listed = {} /\ freed = {} /\ removal = <<>>
  /\ at = [p \in Player |-> Idle] /\ world = "idle"
  /\ row = [a \in Auction |-> NoRow] /\ unsaved = {}
  /\ held = [a \in Auction |-> [p \in Player |-> 0]] /\ got = [a \in Auction |-> <<>>]
  /\ spoiled = [a \in Auction |-> {}] /\ crashed = FALSE
  /\ asks = 0 /\ restarts = 0

\* The thread of p uses the Auction it looked up.
Uses(p, pc)      == ~crashed /\ at[p].pc = pc /\ at[p].auction \notin freed
Lot(p)           == at[p].auction
Goto(p, pc)      == at' = [at EXCEPT ![p].pc = pc]
Leaves(p)        == at' = [at EXCEPT ![p] = Idle]
Spoil(a, c, why) == spoiled' = IF c THEN [spoiled EXCEPT ![a] = @ \cup {why}] ELSE spoiled

-------------------------------------------------------------------------------
\* Selling.  The auction is listed first and its row is inserted afterwards.
Sell(p, a, buyout) ==
  /\ ~crashed /\ p \in Seller /\ at[p] = Idle /\ house[a].owner = None
  /\ house' = [house EXCEPT ![a].owner = p, ![a].buyout = buyout]
  /\ listed' = listed \cup {a}
  /\ at' = [at EXCEPT ![p] = [pc |-> "save", auction |-> a, price |-> NoPrice]]
  /\ UNCHANGED <<freed, removal, world, base, purses, spoiled, crashed, bounds>>

SaveToDB(p) ==
  /\ Uses(p, "save")
  /\ row' = [row EXCEPT ![Lot(p)] = Terms(Lot(p))] /\ unsaved' = unsaved \cup {Lot(p)}
  /\ Leaves(p)
  /\ UNCHANGED <<memory, world, purses, spoiled, crashed, bounds>>

-------------------------------------------------------------------------------
\* HandleAuctionPlaceBid.  The look-up and the checks are one step: what a later check sees,
\* a later look-up sees too.  The world thread may have settled the auction already.
Found(a) == Spoil(a, world = "settled" /\ Head(removal) = a, "served")

Acceptable(p, a, price) ==
  house[a].owner # p /\ (house[a].bid <= price \/ price = house[a].buyout)

Bid(p, a, price) ==
  /\ ~crashed /\ at[p] = Idle /\ a \in listed /\ asks < MaxAsks /\ asks' = asks + 1
  /\ Acceptable(p, a, price)
  /\ held' = [held EXCEPT ![a][p] = @ + price]
  /\ at' = [at EXCEPT ![p] = [pc |-> "refund", auction |-> a, price |-> price]]
  /\ Found(a)
  /\ UNCHANGED <<memory, world, base, got, crashed, restarts>>

PaidBack(a) ==
  IF house[a].bidder = None THEN held
  ELSE [held EXCEPT ![a][house[a].bidder] = @ - house[a].bid]

\* The former bidder is paid back; he may be paid back twice if another bid is about to
\* replace him too.
Refund(p) ==
  /\ Uses(p, "refund")
  /\ held' = PaidBack(Lot(p))
  /\ Goto(p, "set")
  /\ Spoil(Lot(p), \E q \in Player \ {p} : at[q].pc = "set" /\ Lot(q) = Lot(p), "overlap")
  /\ UNCHANGED <<memory, world, base, got, crashed, bounds>>

\* UpdateInDB does nothing if there is no row yet.
Saved(a, terms) == IF row[a] = NoRow THEN row ELSE [row EXCEPT ![a] = terms]

Outbid(p) ==
  house' = [house EXCEPT ![Lot(p)].bidder = p, ![Lot(p)].bid = at[p].price]

\* A buy-out is not written to the database: its auction is queued for deletion.
SetBid(p) ==
  /\ Uses(p, "set")
  /\ Outbid(p)
  /\ IF house[Lot(p)].buyout = at[p].price THEN Goto(p, "test") /\ UNCHANGED row
     ELSE Leaves(p) /\ row' = Saved(Lot(p), [bidder |-> p, bid |-> at[p].price])
  /\ Spoil(Lot(p), house[Lot(p)].deleted /\ house[Lot(p)].reason = "expired", "expired")
  /\ UNCHANGED <<listed, freed, removal, world, unsaved, purses, crashed, bounds>>

-------------------------------------------------------------------------------
\* HandleCancelAuction, which does not ask whose auction it is.
Cancel(p, a) ==
  /\ ~crashed /\ at[p] = Idle /\ a \in listed /\ asks < MaxAsks /\ asks' = asks + 1
  /\ at' = [at EXCEPT ![p] = [pc |-> "test", auction |-> a, price |-> NoPrice]]
  /\ Found(a)
  /\ UNCHANGED <<memory, world, base, purses, crashed, restarts>>

\* QueueDeletion, for a buy-out or a cancellation, and the notification of the buyer.
After(p) == IF at[p].price = NoPrice THEN Leaves(p) ELSE Goto(p, "notify")

Test(p) ==
  /\ Uses(p, "test")
  /\ IF house[Lot(p)].deleted THEN After(p) ELSE Goto(p, "mark")
  /\ UNCHANGED <<memory, world, base, purses, spoiled, crashed, bounds>>

Mark(p) ==
  /\ Uses(p, "mark")
  /\ house' = [house EXCEPT ![Lot(p)].deleted = TRUE,
                            ![Lot(p)].reason = IF at[p].price = NoPrice THEN "cancelled" ELSE "won"]
  /\ Goto(p, "push")
  /\ Spoil(Lot(p), house[Lot(p)].deleted, "again")
  /\ UNCHANGED <<listed, freed, removal, world, base, purses, crashed, bounds>>

Push(p) ==
  /\ Uses(p, "push") /\ world \in {"idle", "served"}
  /\ removal' = Append(removal, Lot(p))
  /\ After(p)
  /\ UNCHANGED <<house, listed, freed, world, base, purses, spoiled, crashed, bounds>>

Notify(p) ==
  /\ Uses(p, "notify") /\ Leaves(p)
  /\ UNCHANGED <<memory, world, base, purses, spoiled, crashed, bounds>>

-------------------------------------------------------------------------------
\* The world thread: UpdateDeletionQueue, which holds removalLock, and UpdateAuctions.
Serve ==
  /\ ~crashed /\ world = "idle"
  /\ world' = IF removal = <<>> THEN "served" ELSE "serving"
  /\ UNCHANGED <<memory, at, base, purses, spoiled, crashed, bounds>>

\* Mutant: the bidder is not paid back when the auction is cancelled.
MailsUnpaid(a) ==
  /\ got' = [got EXCEPT ![a] =
               Append(@, IF house[a].reason = "won" THEN house[a].bidder ELSE house[a].owner)]
  /\ held' = IF house[a].reason = "won" THEN PaidBack(a) ELSE held

\* The mails of RemoveAuction.  The winner's money goes to the owner.
Mails(a) ==
  /\ got' = [got EXCEPT ![a] =
               Append(@, IF house[a].reason = "won" THEN house[a].bidder ELSE house[a].owner)]
  /\ held' = IF house[a].reason = "expired" THEN held ELSE PaidBack(a)

Settle ==
  /\ ~crashed /\ world = "serving" /\ Head(removal) \notin freed
  /\ Mails(Head(removal))
  /\ Spoil(Head(removal), \E p \in Player : Lot(p) = Head(removal), "served")
  /\ world' = "settled"
  /\ UNCHANGED <<memory, at, base, crashed, bounds>>

\* Mutant: it keeps its row.
DiscardSaved ==
  /\ ~crashed /\ world = "settled"
  /\ listed' = listed \ {Head(removal)} /\ freed' = freed \cup {Head(removal)}
  /\ removal' = Tail(removal)
  /\ world' = IF Tail(removal) = <<>> THEN "served" ELSE "serving"
  /\ UNCHANGED <<house, at, base, purses, crashed, spoiled, bounds>>

\* Mutant: removalList is not cleared.
DiscardQueued ==
  /\ ~crashed /\ world = "settled"
  /\ LET a == Head(removal) IN
     /\ listed' = listed \ {a} /\ freed' = freed \cup {a}
     /\ row' = IF a \in unsaved THEN row ELSE [row EXCEPT ![a] = NoRow]
     /\ Spoil(a, a \in unsaved, "ghost")
  /\ removal' = Append(Tail(removal), Head(removal)) /\ world' = "served"
  /\ UNCHANGED <<house, at, unsaved, purses, crashed, bounds>>

\* It is taken from the map, deleted from the database at once, and freed.
Discard ==
  /\ ~crashed /\ world = "settled"
  /\ LET a == Head(removal) IN
     /\ listed' = listed \ {a} /\ freed' = freed \cup {a}
     /\ row' = IF a \in unsaved THEN row ELSE [row EXCEPT ![a] = NoRow]
     /\ Spoil(a, a \in unsaved, "ghost")
  /\ removal' = Tail(removal)
  /\ world' = IF Tail(removal) = <<>> THEN "served" ELSE "serving"
  /\ UNCHANGED <<house, at, unsaved, purses, crashed, bounds>>

\* Eleven rounds of twelve are over now.
Skip ==
  /\ ~crashed /\ world = "served" /\ world' = "idle"
  /\ UNCHANGED <<memory, at, base, purses, spoiled, crashed, bounds>>

\* Whatever is past its time is queued, if it is queued already or not.
Sweep(Past) ==
  /\ ~crashed /\ Past \subseteq listed /\ world = "served" /\ world' = "idle"
  /\ house' = [a \in Auction |-> IF a \in Past
                 THEN [house[a] EXCEPT !.deleted = TRUE,
                         !.reason = IF house[a].bidder = None THEN "expired" ELSE "won"]
                 ELSE house[a]]
  /\ \E s \in SetToSeqs(Past) : removal' = removal \o s
  /\ spoiled' = [a \in Auction |-> IF a \in Past /\ house[a].deleted
                                   THEN spoiled[a] \cup {"again"} ELSE spoiled[a]]
  /\ UNCHANGED <<listed, freed, at, base, purses, crashed, bounds>>

\* A freed Auction is used, by a thread that still has the pointer or from removalList.
Dangling ==
  /\ ~crashed
  /\ \/ \E p \in Player : at[p].pc # "idle" /\ Lot(p) \in freed
     \/ world = "serving" /\ Head(removal) \in freed
  /\ crashed' = TRUE
  /\ UNCHANGED <<memory, at, world, base, purses, spoiled, bounds>>

-------------------------------------------------------------------------------
\* The database and a restart.
Perform(a) ==
  /\ ~crashed /\ a \in unsaved /\ unsaved' = unsaved \ {a}
  /\ UNCHANGED <<memory, at, world, row, purses, spoiled, crashed, bounds>>

\* LoadAuctions, from the rows; a row whose item cannot be loaded is deleted.
Restart(kept) ==
  /\ ~crashed /\ restarts < MaxRestarts /\ restarts' = restarts + 1
  /\ \A p \in Player : at[p] = Idle
  /\ world = "idle" /\ unsaved = {}
  /\ kept \subseteq {a \in Auction : row[a] # NoRow} /\ listed' = kept
  /\ freed' = freed \ kept /\ removal' = <<>>
  /\ house' = [a \in Auction |-> IF a \in kept
                 THEN [house[a] EXCEPT !.bidder = row[a].bidder, !.bid = row[a].bid,
                                       !.deleted = FALSE, !.reason = "none"]
                 ELSE house[a]]
  /\ row' = [a \in Auction |-> IF a \in kept THEN row[a] ELSE NoRow]
  /\ spoiled' = [a \in Auction |-> spoiled[a]
                   \cup (IF a \in listed /\ row[a] # Terms(a) THEN {"restart"} ELSE {})
                   \cup (IF row[a] # NoRow /\ a \notin kept THEN {"dropped"} ELSE {})]
  /\ UNCHANGED <<at, world, unsaved, purses, crashed, asks>>

-------------------------------------------------------------------------------
Ask(p) == \E a \in Auction :
            \/ \E buyout \in Buyout : Sell(p, a, buyout)
            \/ \E price \in Price : Bid(p, a, price)
            \/ Cancel(p, a)

Handle(p) == \/ SaveToDB(p) \/ Refund(p) \/ SetBid(p)
             \/ Test(p) \/ Mark(p) \/ Push(p) \/ Notify(p)

Update == \/ Serve \/ Settle \/ Discard \/ Skip
          \/ \E Past \in SUBSET Auction : Sweep(Past)

Next == \/ \E p \in Player : Ask(p) \/ Handle(p)
        \/ Update \/ Dangling
        \/ \E kept \in SUBSET Auction : Restart(kept)
        \/ \E a \in Auction : Perform(a)

Spec == Init /\ [][Next]_vars

-------------------------------------------------------------------------------
(* Properties.                                                             *)

Free(a) == \A p \in Player : Lot(p) # a

\* An auction that was listed and is no longer.
Ended(a) == house[a].owner # None /\ a \notin listed

\* When an auction has ended and nobody has it in hand, each bidder has been paid back, or has
\* paid for the item, through all the refunds of RemoveAuction and HandleAuctionPlaceBid, bids
\* of nothing and cancellations by anybody included; unless two bids replaced the same bidder,
\* a bid was taken after the auction had expired or while it was settled, a buy-out was
\* pending at a restart, or the row came back after the DELETE or went with its item.
MoneyIsReturned ==
  ~crashed => \A a \in Auction :
    Ended(a) /\ Free(a)
      /\ spoiled[a] \cap {"overlap", "expired", "served", "restart", "ghost", "dropped"} = {} =>
      \A p \in Player : held[a][p] = 0

\* An auction ends with its item sent, and the item is sent to one player only, whatever bids,
\* buy-outs, cancellations and the expiry meet (QueueDeletion, UpdateAuctions, RemoveAuction),
\* and also over a restart; unless the item was not found, or the DELETE overtook the INSERT.
ItemOnce ==
  \A a \in Auction :
    /\ Ended(a) /\ "dropped" \notin spoiled[a] => got[a] # <<>>
    /\ "ghost" \notin spoiled[a] => Len(got[a]) <= 1

\* A freed auction is used only if it was queued twice, by two threads or by the sweep, or
\* settled while a handler had it in hand.
UsedAfterDelete ==
  crashed => \E a \in freed : spoiled[a] \cap {"again", "served"} # {}
===============================================================================
