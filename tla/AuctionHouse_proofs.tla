-------------------------- MODULE AuctionHouse_proofs --------------------------
(***************************************************************************)
(* Proofs about AuctionHouse, for any players, auctions, prices, number of  *)
(* requests and number of restarts.                                         *)
(***************************************************************************)
EXTENDS AuctionHouse, FiniteSetTheorems, SequenceTheorems, TLAPS

Marred == {"overlap", "expired", "served", "restart", "ghost", "dropped"}

Clean(a) == spoiled[a] \cap Marred = {}

\* The thread of p has paid for a bid that is not the auction's yet.
Pays(p, a)     == Lot(p) = a /\ at[p].pc \in {"refund", "set"}
Replaces(p, a) == Lot(p) = a /\ at[p].pc = "set"
Queues(p, a)   == Lot(p) = a /\ at[p].pc = "push"

Records == [owner : Player \cup {None}, bidder : Player \cup {None}, bid : Nat, buyout : Nat,
            deleted : BOOLEAN, reason : {"none", "expired", "won", "cancelled"}]
Frames  == [pc : Pc, auction : Auction \cup {None}, price : Price \cup {NoPrice}]
Bidding(f) == f.pc \in {"refund", "set"} => f.price \in Price
Rows    == [bidder : Player \cup {None}, bid : Nat \cup {-1}]

HouseTyped == /\ house \in [Auction -> Records]
              /\ listed \subseteq Auction /\ freed \subseteq Auction
              /\ removal \in Seq(Auction)
AtTyped    == /\ at \in [Player -> Frames] /\ asks \in 0..MaxAsks
              /\ \A p \in Player : at[p].pc = "idle" => at[p] = Idle
              /\ \A p \in Player : Bidding(at[p])
BaseTyped  == /\ row \in [Auction -> Rows] /\ unsaved \subseteq Auction /\ restarts \in 0..MaxRestarts
              /\ \A a \in Auction : row[a] # NoRow => row[a].bid \in Nat
PurseTyped == held \in [Auction -> [Player -> Int]] /\ got \in [Auction -> Seq(Player)]
WorldTyped == /\ world \in {"idle", "serving", "settled", "served"} /\ crashed \in BOOLEAN
              /\ world \in {"serving", "settled"} => removal # <<>>
Causes     == spoiled \in [Auction -> SUBSET Cause]

Typed == HouseTyped /\ AtTyped /\ BaseTyped /\ PurseTyped /\ WorldTyped /\ Causes

\* Whatever is queued, in hand or in the database was put up for sale and is listed or freed.
Places ==
  /\ listed \cap freed = {}
  /\ \A a \in listed \cup freed : house[a].owner # None
  /\ \A i \in 1..Len(removal) : removal[i] \in listed \cup freed
  /\ \A p \in Player : at[p].pc # "idle" => Lot(p) \in listed \cup freed
  /\ \A a \in Auction : row[a] # NoRow => a \in listed \cup freed

\* An auction is marked before it is queued ...
Marked ==
  /\ \A a \in freed : house[a].deleted
  /\ \A i \in 1..Len(removal) : house[removal[i]].deleted
  /\ \A p \in Player : at[p].pc = "push" => house[Lot(p)].deleted

\* ... and not queued again, unless two threads found it not marked, or the sweep did not look.
QueuedOnce ==
  \A a \in Auction : "again" \notin spoiled[a] =>
    /\ \A i, j \in 1..Len(removal) : removal[i] = a /\ removal[j] = a => i = j
    /\ \A i \in 1..Len(removal) : removal[i] = a => a \notin freed
    /\ \A p, q \in Player : Queues(p, a) /\ Queues(q, a) => p = q
    /\ \A p \in Player : Queues(p, a) => \A i \in 1..Len(removal) : removal[i] # a

\* A thread has an auction in hand that is freed, or as good as freed, only if it was settled
\* then, or looked up meanwhile.
Served ==
  /\ \A p \in Player : Lot(p) \in freed => "served" \in spoiled[Lot(p)]
  /\ world = "settled" =>
       \A p \in Player : Lot(p) = Head(removal) => "served" \in spoiled[Lot(p)]

\* The item is sent when the auction is settled, which is freed next and does not come back.
Sent ==
  /\ \A a \in freed : "ghost" \notin spoiled[a] => row[a] = NoRow
  /\ \A a \in Auction : "ghost" \notin spoiled[a] /\ got[a] # <<>> =>
       /\ Len(got[a]) = 1
       /\ a \in freed \/ (world = "settled" /\ Head(removal) = a)

\* What q has in auction a: his bid, unless it is being replaced, and what he pays now.
Share(q, a) ==
  (IF house[a].bidder = q /\ \A p \in Player : ~Replaces(p, a) THEN house[a].bid ELSE 0)
  + (IF Pays(q, a) THEN at[q].price ELSE 0)

Balanced(a) ==
  /\ house[a].reason = "expired" => house[a].bidder = None
  /\ \A p, q \in Player : Replaces(p, a) /\ Replaces(q, a) => p = q
  /\ got[a] = <<>> => \A q \in Player : held[a][q] = Share(q, a)
  /\ got[a] # <<>> => Free(a) /\ \A q \in Player : held[a][q] = 0

Money ==
  /\ \A a \in Auction : house[a].reason = "expired" => house[a].deleted
  /\ \A a \in Auction : Clean(a) => Balanced(a)

\* There is somebody to send the item to.
Won ==
  /\ \A a \in Auction : house[a].reason = "won" => house[a].bidder # None
  /\ \A p \in Player : at[p].pc \in {"test", "mark"} /\ at[p].price # NoPrice => house[Lot(p)].bidder # None

\* An auction is listed until it was settled or its item was not found, and has a row unless
\* the seller's thread is about to write it.
Kept ==
  /\ \A a \in Auction : Ended(a) /\ "dropped" \notin spoiled[a] => got[a] # <<>>
  /\ world = "settled" => got[Head(removal)] # <<>>
  /\ \A a \in listed : row[a] # NoRow \/ \E p \in Player : at[p].pc = "save" /\ Lot(p) = a

IInv == /\ Typed /\ Places /\ Marked /\ QueuedOnce /\ Served /\ Sent /\ Kept /\ Money /\ Won
        /\ UsedAfterDelete

-----------------------------------------------------------------------------
LEMMA AuctionInit == AuctionAssumption /\ Init => IInv
<1> SUFFICES ASSUME AuctionAssumption, Init PROVE IInv
  OBVIOUS
<1> USE DEF AuctionAssumption, Init, Idle
<1>1. Typed
  <2>1. HouseTyped
    BY DEF HouseTyped, Records
  <2>2. AtTyped
    BY DEF AtTyped, Frames, Pc, NoPrice, Bidding
  <2>3. BaseTyped
    BY DEF BaseTyped, Rows, NoRow
  <2>4. PurseTyped /\ Causes
    BY DEF PurseTyped, Causes
  <2>5. WorldTyped
    BY DEF WorldTyped
  <2>6. QED BY <2>1, <2>2, <2>3, <2>4, <2>5 DEF Typed
<1>2. Places /\ Marked /\ QueuedOnce
  BY DEF Places, Marked, QueuedOnce, Queues
<1>3. Served /\ Sent /\ Kept /\ UsedAfterDelete
  BY DEF Served, Sent, Kept, Ended, UsedAfterDelete
<1>4. Money /\ Won
  BY DEF Money, Won, Balanced, Share, Pays, Replaces, Lot
<1>5. QED BY <1>1, <1>2, <1>3, <1>4 DEF IInv

\* What there is of a sweep's order of what is past its time.
LEMMA SweptOrder ==
  ASSUME AuctionAssumption, NEW Past \in SUBSET Auction, NEW s \in SetToSeqs(Past)
  PROVE  /\ s \in Seq(Past) /\ s \in Seq(Auction)
         /\ \A i, j \in 1..Len(s) : s[i] = s[j] => i = j
<1>1. IsFiniteSet(Past) /\ Cardinality(Past) \in Nat
  BY FS_Subset, FS_CardinalityType DEF AuctionAssumption
<1>2. s \in [1..Cardinality(Past) -> Past] /\ \A i, j \in 1..Cardinality(Past) : i # j => s[i] # s[j]
  BY DEF SetToSeqs
<1>3. s \in Seq(Past) /\ Len(s) = Cardinality(Past)
  BY <1>1, <1>2
<1>4. QED BY <1>2, <1>3

LEMMA Types == Typed => TypeOK
BY DEF Typed, HouseTyped, AtTyped, BaseTyped, PurseTyped, WorldTyped, Causes, TypeOK, Records,
       Frames, Rows

\* The thread of p has nothing in hand, or an auction that was put up for sale; a thread that
\* uses it finds it listed.
LEMMA InHand ==
  ASSUME AuctionAssumption, Typed, Places, NEW p \in Player
  PROVE  /\ at[p].pc = "idle" => Lot(p) = None /\ Lot(p) \notin Auction
         /\ at[p].pc # "idle" => Lot(p) \in Auction /\ Lot(p) \in listed \cup freed
         /\ \A pc \in Pc \ {"idle"} : Uses(p, pc) => /\ Lot(p) \in Auction /\ Lot(p) \in listed
                                                     /\ at[p].pc = pc
<1>1. at[p] \in Frames /\ listed \subseteq Auction /\ freed \subseteq Auction
  BY DEF Typed, AtTyped, HouseTyped
<1>2. at[p].pc = "idle" => Lot(p) = None /\ Lot(p) \notin Auction
  BY DEF Typed, AtTyped, Idle, Lot, AuctionAssumption
<1>3. at[p].pc # "idle" => Lot(p) \in Auction /\ Lot(p) \in listed \cup freed
  BY <1>1 DEF Places
<1>4. QED BY <1>2, <1>3 DEF Uses, Lot

LEMMA InQueue ==
  ASSUME Typed
  PROVE  /\ \A i \in 1..Len(removal) : removal[i] \in Auction
         /\ world \in {"serving", "settled"} =>
              /\ removal # <<>> /\ Len(removal) \in Nat /\ 1 \in 1..Len(removal)
              /\ Head(removal) = removal[1] /\ Head(removal) \in Auction
<1>1. removal \in Seq(Auction)
  BY DEF Typed, HouseTyped
<1>2. QED BY <1>1 DEF Typed, WorldTyped

LEMMA SellKeeps ==
  ASSUME AuctionAssumption, IInv, NEW p \in Player, NEW a \in Auction, NEW buyout \in Buyout,
         Sell(p, a, buyout)
  PROVE  IInv'
<1> DEFINE f == [pc |-> "save", auction |-> a, price |-> NoPrice]
<1>1. /\ at[p] = Idle /\ at' = [at EXCEPT ![p] = f] /\ listed' = listed \cup {a}
      /\ house' = [house EXCEPT ![a].owner = p, ![a].buyout = buyout]
      /\ UNCHANGED <<freed, removal, world, row, unsaved, held, got, spoiled, crashed, asks, restarts>>
  BY DEF Sell, base, purses, bounds
<1>2. /\ house[a].owner = None /\ ~crashed
      /\ a \notin listed \cup freed /\ row[a] = NoRow
      /\ \A i \in 1..Len(removal) : removal[i] # a
      /\ \A q \in Player : Lot(q) # a
  <2>1. house[a].owner = None /\ ~crashed /\ a \notin listed \cup freed
    BY DEF Sell, IInv, Places
  <2>2. \A q \in Player : Lot(q) # a
    BY <2>1, InHand DEF IInv
  <2>3. QED BY <2>1, <2>2 DEF IInv, Places
<1>3. /\ house' \in [Auction -> Records]
      /\ house'[a].owner = p /\ house'[a].bidder = house[a].bidder /\ house'[a].bid = house[a].bid
      /\ house'[a].deleted = house[a].deleted /\ house'[a].reason = house[a].reason
      /\ \A b \in Auction : b # a => house'[b] = house[b]
  <2>1. house \in [Auction -> Records] /\ p \in Player \cup {None} /\ buyout \in Nat
    BY DEF IInv, Typed, HouseTyped, AuctionAssumption
  <2>2. QED BY <2>1, <1>1, ZenonT(30) DEF Records
<1>4. /\ at' \in [Player -> Frames] /\ at'[p] = f
      /\ \A q \in Player : q # p => at'[q] = at[q]
  BY <1>1 DEF IInv, Typed, AtTyped, Frames, Pc, AuctionAssumption
<1>5. Typed'
  <2>1. HouseTyped' /\ AtTyped'
    BY <1>1, <1>3, <1>4 DEF IInv, Typed, HouseTyped, AtTyped, Bidding
  <2>2. BaseTyped' /\ PurseTyped' /\ WorldTyped' /\ Causes'
    BY <1>1 DEF IInv, Typed, BaseTyped, PurseTyped, WorldTyped, Causes
  <2>3. QED BY <2>1, <2>2 DEF Typed
<1>6. Places'
  BY <1>1, <1>2, <1>3, <1>4 DEF IInv, Places, Lot, AuctionAssumption, Typed, HouseTyped
<1>7. Marked' /\ QueuedOnce'
  <2>1. \A i \in 1..Len(removal) : removal[i] \in Auction
    BY InQueue DEF IInv
  <2>2. freed \subseteq Auction /\ \A q \in Player : at[q].pc # "idle" => Lot(q) \in Auction
    BY InHand DEF IInv, Typed, HouseTyped
  <2>3. Marked'
    BY <1>1, <1>2, <1>3, <1>4, <2>1, <2>2 DEF IInv, Marked, Lot
  <2>4. \A q \in Player, b \in Auction : Queues(q, b)' <=> Queues(q, b)
    BY <1>1, <1>4 DEF Queues, Lot, Idle
  <2>5. QueuedOnce'
    BY <1>1, <2>4 DEF IInv, QueuedOnce
  <2>6. QED BY <2>3, <2>5
<1>8. Served' /\ Sent' /\ UsedAfterDelete'
  <2>1. Served'
    BY <1>1, <1>2, <1>4, InQueue DEF IInv, Served, Lot
  <2>2. Sent' /\ UsedAfterDelete'
    BY <1>1, <1>2 DEF IInv, Sent, UsedAfterDelete
  <2>3. QED BY <2>1, <2>2
<1>9. Money' /\ Won'
  <2>1. \A q \in Player, b \in Auction : /\ Replaces(q, b)' <=> Replaces(q, b)
                                         /\ Pays(q, b)' <=> Pays(q, b)
                                         /\ Pays(q, b) => at'[q].price = at[q].price
                                         /\ Share(q, b)' = Share(q, b)
    <3>1. \A q \in Player, b \in Auction : /\ Replaces(q, b)' <=> Replaces(q, b)
                                           /\ Pays(q, b)' <=> Pays(q, b)
                                           /\ Pays(q, b) => at'[q].price = at[q].price
      BY <1>1, <1>4 DEF Replaces, Pays, Lot, Idle
    <3>2. QED BY <3>1, <1>3 DEF Share
  <2>2. \A b \in Auction : Free(b) /\ b # a => Free(b)'
    BY <1>4 DEF Free, Lot
  <2>3. got[a] = <<>> \/ ~Clean(a)
    BY <1>2, InQueue DEF IInv, Sent, Clean, Marred
  <2>4. Money'
    BY <1>1, <1>3, <2>1, <2>2, <2>3 DEF IInv, Money, Balanced, Clean
  <2>5. \A q \in Player : at'[q].pc \in {"test", "mark"} => /\ q # p /\ at'[q] = at[q]
                                                         /\ Lot(q) \in Auction
    BY <1>4, InHand DEF IInv
  <2>6. Won'
    BY <1>3, <2>5 DEF IInv, Won, Lot
  <2>7. QED BY <2>4, <2>6
<1>10. Kept'
  <2>1. \A b \in Auction : Ended(b)' => Ended(b)
    BY <1>1, <1>3 DEF Ended, AuctionAssumption
  <2>2. at'[p].pc = "save" /\ Lot(p)' = a
    BY <1>4 DEF Lot
  <2>3. \A q \in Player : at[q].pc = "save" => at'[q] = at[q]
    BY <1>1, <1>4 DEF Idle
  <2>4. \A b \in listed' : row'[b] # NoRow \/ \E q \in Player : at'[q].pc = "save" /\ Lot(q)' = b
    BY <1>1, <2>2, <2>3 DEF IInv, Kept, Lot
  <2>5. QED BY <1>1, <2>1, <2>4 DEF IInv, Kept
<1>11. QED BY <1>5, <1>6, <1>7, <1>8, <1>9, <1>10 DEF IInv

\* The thread of p goes on with the auction it has in hand, or is done with it.
HandMoves(p, f) ==
  /\ at[p].pc # "idle" /\ Lot(p) \in listed /\ ~crashed
  /\ f \in Frames /\ (f = Idle \/ (f.auction = Lot(p) /\ f.pc # "idle")) /\ Bidding(f)
  /\ at' = [at EXCEPT ![p] = f]
  /\ house' \in [Auction -> Records] /\ spoiled' \in [Auction -> SUBSET Cause]
  /\ row' \in [Auction -> Rows] /\ held' \in [Auction -> [Player -> Int]] /\ unsaved' \subseteq Auction
  /\ \A a \in Auction : /\ house'[a].owner = house[a].owner
                        /\ house[a].deleted => house'[a].deleted
                        /\ spoiled[a] \subseteq spoiled'[a]
                        /\ house[a].bidder # None => house'[a].bidder # None
                        /\ house'[a].reason = "won" => house'[a].bidder # None
  /\ f.pc \in {"test", "mark"} /\ f.price # NoPrice => house'[Lot(p)].bidder # None
  /\ \A a \in Auction : row[a] # NoRow => row'[a] # NoRow
  /\ at[p].pc = "save" => row'[Lot(p)] # NoRow
  /\ \A a \in Auction : row'[a] # NoRow => row'[a].bid \in Nat /\ (row[a] # NoRow \/ a = Lot(p))
  /\ UNCHANGED <<listed, freed, removal, world, got, crashed, asks, restarts>>

LEMMA HandKeeps ==
  ASSUME AuctionAssumption, IInv, NEW p \in Player, NEW f, HandMoves(p, f)
  PROVE  /\ Typed' /\ Places' /\ Served' /\ Sent' /\ Kept'
         /\ UsedAfterDelete' /\ Won'
         /\ (f.pc = "push" => house'[Lot(p)].deleted) => Marked'
         /\ f.pc # "push" => QueuedOnce'
         /\ at'[p] = f /\ \A q \in Player : q # p => at'[q] = at[q]
<1> USE DEF HandMoves
<1>1. at'[p] = f /\ \A q \in Player : q # p => at'[q] = at[q]
  BY DEF IInv, Typed, AtTyped
<1>2. Typed'
  <2>1. HouseTyped' /\ BaseTyped'
    BY DEF IInv, Typed, HouseTyped, BaseTyped
  <2>2. AtTyped'
    BY <1>1 DEF IInv, Typed, AtTyped, Idle
  <2>3. PurseTyped' /\ WorldTyped' /\ Causes'
    BY DEF IInv, Typed, PurseTyped, WorldTyped, Causes
  <2>4. QED BY <2>1, <2>2, <2>3 DEF Typed
<1>3. freed \subseteq Auction /\ listed \subseteq Auction
      /\ \A i \in 1..Len(removal) : removal[i] \in Auction
  BY InQueue DEF IInv, Typed, HouseTyped
<1>4. Lot(p) \in Auction /\ Lot(p) \notin freed /\ None \notin Auction
  BY <1>3 DEF IInv, Places, AuctionAssumption
<1>5. \A q \in Player : /\ q # p => Lot(q)' = Lot(q)
                        /\ f = Idle => Lot(p)' = None
                        /\ f # Idle => Lot(p)' = Lot(p)
  BY <1>1 DEF Lot, Idle
<1>6. Places'
  <2>1. \A q \in Player : at'[q].pc # "idle" => at[q].pc # "idle" /\ Lot(q)' = Lot(q)
    BY <1>1, <1>5 DEF Idle
  <2>2. \A q \in Player : at'[q].pc # "idle" => Lot(q)' \in listed' \cup freed'
    BY <2>1 DEF IInv, Places
  <2>3. \A a \in Auction : row'[a] # NoRow => a \in listed' \cup freed'
    BY DEF IInv, Places
  <2>4. /\ \A a \in listed' \cup freed' : house'[a].owner # None
        /\ \A i \in 1..Len(removal') : removal'[i] \in listed' \cup freed'
        /\ listed' \cap freed' = {}
    BY <1>3 DEF IInv, Places
  <2>5. QED BY <2>2, <2>3, <2>4 DEF Places
<1>7. Served'
  <2>1. \A q \in Player : Lot(q)' \in freed \/ (world = "settled" /\ Lot(q)' = Head(removal))
          => Lot(q)' = Lot(q) /\ Lot(q) \in Auction
    BY <1>3, <1>4, <1>5, InQueue DEF IInv
  <2>2. QED BY <2>1 DEF IInv, Served
<1>8. Sent'
  BY <1>3, <1>4 DEF IInv, Sent
<1>9. (f.pc = "push" => house'[Lot(p)].deleted) => Marked'
  <2>1. \A q \in Player : at[q].pc # "idle" => Lot(q) \in Auction
    BY InHand DEF IInv
  <2>2. \A a \in Auction : house[a].deleted => house'[a].deleted
    OBVIOUS
  <2>3. /\ \A a \in freed' : house'[a].deleted
        /\ \A i \in 1..Len(removal') : house'[removal'[i]].deleted
    BY <1>3, <2>2 DEF IInv, Marked
  <2>4. ASSUME f.pc = "push" => house'[Lot(p)].deleted, NEW q \in Player, at'[q].pc = "push"
        PROVE  house'[Lot(q)'].deleted
    <3>1. CASE q = p
      BY <1>1, <1>5, <2>4, <3>1 DEF Idle
    <3>2. CASE q # p
      BY <1>1, <1>5, <2>1, <2>2, <2>4, <3>2 DEF IInv, Marked
    <3>3. QED BY <3>1, <3>2
  <2>5. QED BY <2>3, <2>4 DEF Marked
<1>10. f.pc # "push" => QueuedOnce'
  <2>1. f.pc # "push" => \A q \in Player, b \in Auction : Queues(q, b)' => Queues(q, b)
    BY <1>1 DEF Queues, Lot
  <2>2. \A b \in Auction : "again" \notin spoiled'[b] => "again" \notin spoiled[b]
    OBVIOUS
  <2>3. QED BY <2>1, <2>2 DEF IInv, QueuedOnce
<1>11. UsedAfterDelete'
  BY DEF UsedAfterDelete
<1>12. Won'
  <2>1. \A q \in Player : at[q].pc # "idle" => Lot(q) \in Auction
    BY InHand DEF IInv
  <2>2. ASSUME NEW q \in Player, at'[q].pc \in {"test", "mark"}, at'[q].price # NoPrice
        PROVE  house'[Lot(q)'].bidder # None
    <3>1. CASE q = p
      BY <1>1, <1>5, <2>2, <3>1 DEF Idle
    <3>2. CASE q # p
      BY <1>1, <1>5, <2>1, <2>2, <3>2 DEF IInv, Won
    <3>3. QED BY <3>1, <3>2
  <2>3. QED BY <2>2 DEF Won
<1>13. Kept'
  <2>1. \A a \in Auction : Ended(a)' => Ended(a)
    BY DEF Ended
  <2>2. \A a \in listed : row'[a] # NoRow \/ \E q \in Player : at'[q].pc = "save" /\ Lot(q)' = a
    BY <1>1, <1>3, <1>5 DEF IInv, Kept
  <2>3. QED BY <2>1, <2>2 DEF IInv, Kept
<1>14. QED BY <1>1, <1>2, <1>6, <1>7, <1>8, <1>9, <1>10, <1>11, <1>12, <1>13

\* ... and nobody pays anything meanwhile.
LEMMA QuietMoney ==
  ASSUME AuctionAssumption, IInv, NEW p \in Player, at[p].pc \notin {"refund", "set"},
         NEW f \in Frames, f.pc \notin {"refund", "set"}, f = Idle \/ f.auction = Lot(p),
         at' = [at EXCEPT ![p] = f],
         \A a \in Auction : /\ house'[a].bidder = house[a].bidder /\ house'[a].bid = house[a].bid
                            /\ house[a].deleted => house'[a].deleted
                            /\ house'[a].reason = "expired" => house[a].reason = "expired"
                            /\ spoiled[a] \subseteq spoiled'[a],
         UNCHANGED <<held, got>>
  PROVE  Money'
<1>1. at'[p] = f /\ \A q \in Player : q # p => at'[q] = at[q]
  BY DEF IInv, Typed, AtTyped
<1>2. \A q \in Player, b \in Auction : /\ Replaces(q, b)' <=> Replaces(q, b)
                                       /\ Pays(q, b)' <=> Pays(q, b)
                                       /\ Pays(q, b) => at'[q].price = at[q].price
  BY <1>1 DEF Replaces, Pays, Lot
<1>3. \A q \in Player, b \in Auction : Share(q, b)' = Share(q, b)
  BY <1>2 DEF Share
<1>4. \A b \in Auction : Free(b) => Free(b)'
  BY <1>1 DEF Free, Lot, Idle, AuctionAssumption
<1>5. QED BY <1>2, <1>3, <1>4 DEF IInv, Money, Balanced, Clean

\* How the thread of p goes on with the auction it has in hand, or is done with it.
LEMMA Goes ==
  ASSUME Typed, NEW p \in Player, NEW pc \in Pc \ {"idle"}, Goto(p, pc)
  PROVE  \E f \in Frames : /\ at' = [at EXCEPT ![p] = f]
                           /\ f.pc = pc /\ f.auction = Lot(p) /\ f.price = at[p].price
<1> DEFINE f == [at[p] EXCEPT !.pc = pc]
<1>1. at[p] \in Frames
  BY DEF Typed, AtTyped
<1>2. f \in Frames /\ f.pc = pc /\ f.auction = Lot(p) /\ f.price = at[p].price
  BY <1>1 DEF Frames, Lot
<1>3. at' = [at EXCEPT ![p] = f]
  BY DEF Goto
<1>4. QED BY <1>2, <1>3

LEMMA IsDone ==
  ASSUME AuctionAssumption, NEW p \in Player, Leaves(p)
  PROVE  Idle \in Frames /\ Idle.pc = "idle" /\ at' = [at EXCEPT ![p] = Idle]
BY DEF Leaves, Idle, Frames, Pc, AuctionAssumption

LEMMA SaveToDBKeeps ==
  ASSUME AuctionAssumption, IInv, NEW p \in Player, SaveToDB(p)
  PROVE  IInv'
<1>1. /\ Lot(p) \in Auction /\ Lot(p) \in listed /\ at[p].pc = "save" /\ ~crashed
  BY InHand DEF IInv, SaveToDB, Uses, Pc
<1>2. /\ at' = [at EXCEPT ![p] = Idle] /\ Idle \in Frames
      /\ row' = [row EXCEPT ![Lot(p)] = Terms(Lot(p))] /\ unsaved' = unsaved \cup {Lot(p)}
      /\ UNCHANGED <<house, listed, freed, removal, world, held, got, spoiled, crashed, asks, restarts>>
  BY DEF SaveToDB, Leaves, memory, purses, bounds, Idle, Frames, Pc, AuctionAssumption
<1>3. Terms(Lot(p)) \in Rows /\ Terms(Lot(p)).bid \in Nat
  BY <1>1 DEF Terms, Rows, IInv, Typed, HouseTyped, Records
<1>4. row' \in [Auction -> Rows] /\ unsaved' \subseteq Auction
      /\ row'[Lot(p)] # NoRow /\ (\A a \in Auction : row[a] # NoRow => row'[a] # NoRow)
      /\ \A a \in Auction : row'[a] # NoRow => row'[a].bid \in Nat /\ (row[a] # NoRow \/ a = Lot(p))
  BY <1>1, <1>2, <1>3 DEF IInv, Typed, BaseTyped, NoRow
<1>5. house' \in [Auction -> Records] /\ spoiled' \in [Auction -> SUBSET Cause]
      /\ held' \in [Auction -> [Player -> Int]]
  BY <1>2 DEF IInv, Typed, HouseTyped, Causes, PurseTyped
<1>6. Idle.pc = "idle"
  BY DEF Idle
<1>7. Typed' /\ Places' /\ Served' /\ Sent' /\ Kept' /\ UsedAfterDelete' /\ Marked' /\ QueuedOnce' /\ Won'
  <2>1. HandMoves(p, Idle)
    BY <1>1, <1>2, <1>4, <1>5, <1>6 DEF HandMoves, Bidding, IInv, Won
  <2>2. QED BY <2>1, <1>6, HandKeeps
<1>8. Money'
  BY <1>1, <1>2, <1>6, QuietMoney
<1>9. QED BY <1>7, <1>8 DEF IInv

\* Test, and Notify.
LEMMA TestKeeps ==
  ASSUME AuctionAssumption, IInv, NEW p \in Player, Test(p) \/ Notify(p)
  PROVE  IInv'
<1>1. /\ Lot(p) \in Auction /\ Lot(p) \in listed /\ at[p].pc \in {"test", "notify"} /\ ~crashed
  BY InHand DEF IInv, Test, Notify, Uses, Pc
<1>2. UNCHANGED <<house, listed, freed, removal, world, row, unsaved, held, got, spoiled, crashed,
                  asks, restarts>>
  BY DEF Test, Notify, memory, base, purses, bounds
<1>3. PICK f \in Frames : /\ at' = [at EXCEPT ![p] = f] /\ f.pc \in {"idle", "mark", "notify"}
                          /\ f = Idle \/ (f.auction = Lot(p) /\ f.pc # "idle")
                          /\ f.pc = "mark" => f.price = at[p].price /\ at[p].pc = "test"
  <2>2. CASE Leaves(p)
    <3>1. Idle \in Frames /\ Idle.pc = "idle" /\ at' = [at EXCEPT ![p] = Idle]
      BY <2>2, IsDone
    <3>2. QED BY <3>1
  <2>3. CASE Goto(p, "mark") /\ at[p].pc = "test"
    BY <2>3, Goes DEF IInv, Pc
  <2>4. CASE Goto(p, "notify")
    BY <2>4, Goes DEF IInv, Pc
  <2>5. QED BY <2>2, <2>3, <2>4 DEF Test, Notify, After, Uses
<1>4. house' \in [Auction -> Records] /\ spoiled' \in [Auction -> SUBSET Cause]
      /\ held' \in [Auction -> [Player -> Int]] /\ row' \in [Auction -> Rows] /\ unsaved' \subseteq Auction
      /\ \A a \in Auction : row'[a] # NoRow => row'[a].bid \in Nat
  BY <1>2 DEF IInv, Typed, HouseTyped, Causes, PurseTyped, BaseTyped
<1>5. Typed' /\ Places' /\ Served' /\ Sent' /\ Kept' /\ UsedAfterDelete' /\ Marked' /\ QueuedOnce' /\ Won'
  <2>1. HandMoves(p, f)
    BY <1>1, <1>2, <1>3, <1>4 DEF HandMoves, Bidding, IInv, Won
  <2>2. QED BY <2>1, <1>3, HandKeeps
<1>6. Money'
  BY <1>1, <1>2, <1>3, QuietMoney
<1>7. QED BY <1>5, <1>6 DEF IInv

LEMMA MarkKeeps ==
  ASSUME AuctionAssumption, IInv, NEW p \in Player, Mark(p)
  PROVE  IInv'
<1>1. PICK a \in Auction : a = Lot(p) /\ a \in listed /\ at[p].pc = "mark" /\ ~crashed
  BY InHand DEF IInv, Mark, Uses, Pc
<1>2. PICK f \in Frames : at' = [at EXCEPT ![p] = f] /\ f.auction = a /\ f.pc = "push"
  BY <1>1, Goes DEF Mark, Pc, IInv
<1>3. PICK why \in {"cancelled", "won"} :
        /\ why = "won" => at[p].price # NoPrice
        /\ house' = [house EXCEPT ![a].deleted = TRUE, ![a].reason = why]
  BY <1>1 DEF Mark
<1>4. /\ spoiled' = IF house[a].deleted THEN [spoiled EXCEPT ![a] = @ \cup {"again"}] ELSE spoiled
      /\ UNCHANGED <<listed, freed, removal, world, row, unsaved, held, got, crashed, asks, restarts>>
  BY <1>1 DEF Mark, base, purses, bounds, Spoil
<1>5. /\ house' \in [Auction -> Records]
      /\ house'[a] = [house[a] EXCEPT !.deleted = TRUE, !.reason = why]
      /\ \A b \in Auction : b # a => house'[b] = house[b]
  <2>1. house \in [Auction -> Records] /\ house[a] \in Records
    BY DEF IInv, Typed, HouseTyped
  <2>2. /\ house'[a] = [house[a] EXCEPT !.deleted = TRUE, !.reason = why]
        /\ \A b \in Auction : b # a => house'[b] = house[b]
    BY <2>1, <1>3
  <2>3. [house[a] EXCEPT !.deleted = TRUE, !.reason = why] \in Records
    BY <2>1 DEF Records
  <2>4. house' \in [Auction -> Records]
    BY <2>1, <2>2, <2>3, <1>3
  <2>5. QED BY <2>2, <2>4
<1>6. /\ house'[a].deleted
      /\ \A b \in Auction : /\ house'[b].owner = house[b].owner /\ house'[b].bidder = house[b].bidder
                            /\ house'[b].bid = house[b].bid
                            /\ house[b].deleted => house'[b].deleted
                            /\ house'[b].reason = "expired" => house[b].reason = "expired"
                            /\ house'[b].reason = "won" => house'[b].bidder # None
  <2>1. house[a] \in Records
    BY DEF IInv, Typed, HouseTyped
  <2>2. /\ house'[a].deleted /\ house'[a].reason = why
        /\ house'[a].owner = house[a].owner /\ house'[a].bidder = house[a].bidder
        /\ house'[a].bid = house[a].bid
    BY <1>5, <2>1 DEF Records
  <2>3. why = "won" => house[a].bidder # None
    BY <1>1, <1>3 DEF IInv, Won
  <2>4. QED BY <1>5, <2>2, <2>3 DEF IInv, Won
<1>7. /\ spoiled' \in [Auction -> SUBSET Cause]
      /\ \A b \in Auction : spoiled[b] \subseteq spoiled'[b]
      /\ house[a].deleted => "again" \in spoiled'[a]
  BY <1>1, <1>4 DEF IInv, Typed, Causes, Cause
<1>8. /\ held' \in [Auction -> [Player -> Int]] /\ row' \in [Auction -> Rows]
      /\ unsaved' \subseteq Auction
      /\ \A b \in Auction : row'[b] # NoRow => row'[b].bid \in Nat /\ row[b] # NoRow
  BY <1>4 DEF IInv, Typed, PurseTyped, BaseTyped
<1>9. /\ Typed' /\ Places' /\ Served' /\ Sent' /\ Kept' /\ UsedAfterDelete' /\ Marked' /\ Won'
      /\ at'[p] = f /\ \A q \in Player : q # p => at'[q] = at[q]
  <2>1. HandMoves(p, f)
    BY <1>1, <1>2, <1>4, <1>5, <1>6, <1>7, <1>8 DEF HandMoves, Bidding
  <2>2. QED BY <2>1, <1>1, <1>6, HandKeeps
<1>10. Money'
  BY <1>1, <1>2, <1>4, <1>6, <1>7, QuietMoney
<1>11. QueuedOnce'
  <2>1. \A q \in Player, b \in Auction : q # p \/ b # a => (Queues(q, b)' <=> Queues(q, b))
    BY <1>1, <1>2, <1>9 DEF Queues, Lot
  <2>2. ASSUME ~house[a].deleted
        PROVE  /\ \A i \in 1..Len(removal) : removal[i] # a
               /\ \A q \in Player : ~Queues(q, a)
    BY <2>2 DEF IInv, Marked, Queues
  <2>3. ASSUME NEW b \in Auction, "again" \notin spoiled'[b]
        PROVE  /\ \A i, j \in 1..Len(removal) : removal[i] = b /\ removal[j] = b => i = j
               /\ \A i \in 1..Len(removal) : removal[i] = b => b \notin freed
               /\ \A q, r \in Player : Queues(q, b)' /\ Queues(r, b)' => q = r
               /\ \A q \in Player : Queues(q, b)' => \A i \in 1..Len(removal) : removal[i] # b
    <3>1. "again" \notin spoiled[b]
      BY <1>7, <2>3
    <3>2. CASE b = a
      BY <1>7, <2>1, <2>2, <2>3, <3>2
    <3>3. CASE b # a
      BY <2>1, <3>1, <3>3 DEF IInv, QueuedOnce
    <3>4. QED BY <3>2, <3>3
  <2>4. QED BY <1>4, <2>3 DEF QueuedOnce
<1>12. QED BY <1>9, <1>10, <1>11 DEF IInv

\* What a thread does with the auction it has in hand leaves the others' accounts alone.
LEMMA OthersBalance ==
  ASSUME AuctionAssumption, IInv, NEW p \in Player, NEW f, HandMoves(p, f),
         NEW b \in Auction, b # Lot(p), Clean(b)',
         house'[b] = house[b], held'[b] = held[b]
  PROVE  Balanced(b)'
<1>1. at'[p] = f /\ (\A q \in Player : q # p => at'[q] = at[q]) /\ b # None
  BY DEF HandMoves, IInv, Typed, AtTyped, AuctionAssumption
<1>2. \A q \in Player : /\ Replaces(q, b)' <=> Replaces(q, b)
                        /\ Pays(q, b)' <=> Pays(q, b)
                        /\ Pays(q, b) => at'[q].price = at[q].price
                        /\ Lot(q) # b => Lot(q)' # b
  BY <1>1 DEF HandMoves, Replaces, Pays, Lot, Idle
<1>3. \A q \in Player : Share(q, b)' = Share(q, b)
  BY <1>2 DEF Share
<1>4. Balanced(b)
  BY DEF HandMoves, IInv, Money, Clean
<1>5. got' = got
  BY DEF HandMoves
<1>6. QED BY <1>2, <1>3, <1>4, <1>5 DEF Balanced, Free

LEMMA RefundKeeps ==
  ASSUME AuctionAssumption, IInv, NEW p \in Player, Refund(p)
  PROVE  IInv'
<1>1. PICK a \in Auction : a = Lot(p) /\ a \in listed /\ at[p].pc = "refund" /\ ~crashed
  BY InHand DEF IInv, Refund, Uses, Pc
<1>2. PICK f \in Frames : /\ at' = [at EXCEPT ![p] = f] /\ f.auction = a /\ f.pc = "set"
                          /\ f.price = at[p].price
  BY <1>1, Goes DEF Refund, Pc, IInv
<1>3. /\ held' = PaidBack(a)
      /\ spoiled' = IF \E q \in Player \ {p} : at[q].pc = "set" /\ Lot(q) = a
                    THEN [spoiled EXCEPT ![a] = @ \cup {"overlap"}] ELSE spoiled
      /\ UNCHANGED <<house, listed, freed, removal, world, row, unsaved, got, crashed, asks, restarts>>
  BY <1>1 DEF Refund, memory, base, bounds, Spoil
<1>4. /\ held' \in [Auction -> [Player -> Int]]
      /\ \A b \in Auction : b # a => held'[b] = held[b]
      /\ \A q \in Player : held'[a][q] = held[a][q] - (IF house[a].bidder = q THEN house[a].bid ELSE 0)
  <2>1. /\ held \in [Auction -> [Player -> Int]] /\ house[a].bid \in Nat
        /\ house[a].bidder \in Player \cup {None} /\ None \notin Player
    BY DEF IInv, Typed, PurseTyped, HouseTyped, Records, AuctionAssumption
  <2>2. CASE house[a].bidder = None
    BY <2>1, <2>2, <1>3 DEF PaidBack
  <2>3. CASE house[a].bidder # None
    <3>1. held' = [held EXCEPT ![a][house[a].bidder] = @ - house[a].bid]
      BY <2>3, <1>3 DEF PaidBack
    <3>2. QED BY <2>1, <2>3, <3>1
  <2>4. QED BY <2>2, <2>3
<1>5. /\ spoiled' \in [Auction -> SUBSET Cause]
      /\ \A b \in Auction : spoiled[b] \subseteq spoiled'[b]
      /\ (\E q \in Player \ {p} : at[q].pc = "set" /\ Lot(q) = a) => "overlap" \in spoiled'[a]
  BY <1>3 DEF IInv, Typed, Causes, Cause
<1>6. /\ house' \in [Auction -> Records] /\ row' \in [Auction -> Rows]
      /\ unsaved' \subseteq Auction
      /\ \A b \in Auction : row'[b] # NoRow => row'[b].bid \in Nat /\ row[b] # NoRow
  BY <1>3 DEF IInv, Typed, HouseTyped, BaseTyped
<1>7. HandMoves(p, f)
  <2>1. Bidding(f)
    BY <1>1, <1>2 DEF IInv, Typed, AtTyped, Bidding
  <2>2. QED BY <1>1, <1>2, <1>3, <1>4, <1>5, <1>6, <2>1 DEF HandMoves, IInv, Won
<1>8. /\ Typed' /\ Places' /\ Served' /\ Sent' /\ Kept' /\ UsedAfterDelete' /\ Marked' /\ QueuedOnce' /\ Won'
      /\ at'[p] = f /\ \A q \in Player : q # p => at'[q] = at[q]
  BY <1>2, <1>7, HandKeeps
<1>9. ASSUME Clean(a)'
      PROVE  Balanced(a)'
  <2>1. \A q \in Player : ~Replaces(q, a)
    BY <1>1, <1>5, <1>9 DEF Clean, Marred, Replaces
  <2>2. \A q \in Player : Replaces(q, a)' => q = p
    BY <1>8, <2>1 DEF Replaces, Lot
  <2>3. Replaces(p, a)'
    BY <1>2, <1>8 DEF Replaces, Lot
  <2>4. \A q \in Player : Pays(q, a)' <=> Pays(q, a)
    BY <1>1, <1>2, <1>8 DEF Pays, Lot
  <2>5. Balanced(a) /\ got[a] = <<>>
    <3>1. Balanced(a)
      BY <1>5, <1>9 DEF IInv, Money, Clean
    <3>2. QED BY <3>1, <1>1 DEF Balanced, Free
  <2>6. \A q \in Player : /\ at'[q].price = at[q].price /\ at[q].price \in Int
                          /\ held[a][q] \in Int /\ house[a].bid \in Int
    BY <1>2, <1>8, SMTT(30) DEF IInv, Typed, AtTyped, Frames, Price, NoPrice, PurseTyped, HouseTyped, Records,
         AuctionAssumption
  <2>7. \A q \in Player : held'[a][q] = Share(q, a)'
    <3>1. \A q \in Player : held[a][q] = (IF house[a].bidder = q THEN house[a].bid ELSE 0)
                                       + (IF Pays(q, a) THEN at[q].price ELSE 0)
      BY <2>1, <2>5 DEF Balanced, Share
    <3>2. \A q \in Player : Share(q, a)' = IF Pays(q, a) THEN at[q].price ELSE 0
      BY <2>3, <2>4, <2>6 DEF Share
    <3>3. QED BY <1>4, <2>6, <3>1, <3>2
  <2>8. QED BY <1>3, <2>2, <2>5, <2>7 DEF Balanced
<1>10. Money'
  <2>1. \A b \in Auction : b # a /\ Clean(b)' => Balanced(b)'
    BY <1>1, <1>3, <1>4, <1>7, OthersBalance
  <2>2. QED BY <1>3, <1>9, <2>1 DEF IInv, Money
<1>11. QED BY <1>8, <1>10 DEF IInv

LEMMA SetBidKeeps ==
  ASSUME AuctionAssumption, IInv, NEW p \in Player, SetBid(p)
  PROVE  IInv'
<1>1. PICK a \in Auction : a = Lot(p) /\ a \in listed /\ at[p].pc = "set" /\ ~crashed
  BY InHand DEF IInv, SetBid, Uses, Pc
<1>2. PICK f \in Frames : /\ at' = [at EXCEPT ![p] = f] /\ f.pc \in {"idle", "test"}
                          /\ f = Idle \/ (f.auction = a /\ f.pc # "idle")
  <2>1. CASE Leaves(p)
    <3>1. Idle \in Frames /\ Idle.pc = "idle" /\ at' = [at EXCEPT ![p] = Idle]
      BY <2>1, IsDone
    <3>2. QED BY <3>1
  <2>2. CASE Goto(p, "test")
    BY <1>1, <2>2, Goes DEF IInv, Pc
  <2>3. QED BY <2>1, <2>2 DEF SetBid
<1>3. /\ house' = [house EXCEPT ![a].bidder = p, ![a].bid = at[p].price]
      /\ row' = row \/ (row[a] # NoRow /\ row' = [row EXCEPT ![a] = [bidder |-> p, bid |-> at[p].price]])
      /\ spoiled' = IF house[a].deleted /\ house[a].reason = "expired"
                    THEN [spoiled EXCEPT ![a] = @ \cup {"expired"}] ELSE spoiled
      /\ UNCHANGED <<listed, freed, removal, world, unsaved, held, got, crashed, asks, restarts>>
  BY <1>1 DEF SetBid, Outbid, Saved, purses, bounds, Spoil
<1>4. at[p].price \in Nat
  BY <1>1 DEF IInv, Typed, AtTyped, Bidding, Frames, Price, NoPrice, AuctionAssumption
<1>5. /\ house' \in [Auction -> Records]
      /\ \A b \in Auction : b # a => house'[b] = house[b]
      /\ house'[a].bidder = p /\ house'[a].bid = at[p].price
      /\ house'[a].owner = house[a].owner /\ house'[a].deleted = house[a].deleted
      /\ house'[a].reason = house[a].reason
  <2>1. house \in [Auction -> Records] /\ house[a] \in Records
    BY DEF IInv, Typed, HouseTyped
  <2>2. /\ house'[a] = [house[a] EXCEPT !.bidder = p, !.bid = at[p].price]
        /\ \A b \in Auction : b # a => house'[b] = house[b]
    BY <2>1, <1>3
  <2>3. [house[a] EXCEPT !.bidder = p, !.bid = at[p].price] \in Records
    BY <2>1, <1>4 DEF Records
  <2>4. house' \in [Auction -> Records]
    BY <2>1, <2>2, <2>3, <1>3
  <2>5. QED BY <2>1, <2>2, <2>4 DEF Records
<1>6. p # None
  BY DEF AuctionAssumption
<1>7. /\ spoiled' \in [Auction -> SUBSET Cause]
      /\ \A b \in Auction : spoiled[b] \subseteq spoiled'[b]
      /\ house[a].deleted /\ house[a].reason = "expired" => "expired" \in spoiled'[a]
  BY <1>3 DEF IInv, Typed, Causes, Cause
<1>8. /\ held' \in [Auction -> [Player -> Int]] /\ row' \in [Auction -> Rows]
      /\ unsaved' \subseteq Auction
      /\ \A b \in Auction : row'[b] # NoRow => row'[b].bid \in Nat /\ row[b] # NoRow
      /\ \A b \in Auction : row[b] # NoRow => row'[b] # NoRow
  <2>1. row \in [Auction -> Rows] /\ \A b \in Auction : row[b] # NoRow => row[b].bid \in Nat
    BY DEF IInv, Typed, BaseTyped
  <2>2. [bidder |-> p, bid |-> at[p].price] \in Rows \ {NoRow}
    BY <1>4 DEF Rows, NoRow
  <2>3. /\ row' \in [Auction -> Rows]
        /\ \A b \in Auction : row'[b] # NoRow => row'[b].bid \in Nat /\ row[b] # NoRow
        /\ \A b \in Auction : row[b] # NoRow => row'[b] # NoRow
    <3>1. CASE row' = row
      BY <2>1, <3>1
    <3>2. CASE row[a] # NoRow /\ row' = [row EXCEPT ![a] = [bidder |-> p, bid |-> at[p].price]]
      BY <1>4, <2>1, <2>2, <3>2
    <3>3. QED BY <1>3, <3>1, <3>2
  <2>4. held' \in [Auction -> [Player -> Int]] /\ unsaved' \subseteq Auction
    BY <1>3 DEF IInv, Typed, PurseTyped, BaseTyped
  <2>5. QED BY <2>3, <2>4
<1>9. HandMoves(p, f)
  <2>1. \A b \in Auction : /\ house[b].bidder # None => house'[b].bidder # None
                           /\ house'[b].reason = "won" => house'[b].bidder # None
                           /\ house'[b].owner = house[b].owner
                           /\ house[b].deleted => house'[b].deleted
    BY <1>5, <1>6 DEF IInv, Won
  <2>2. house'[Lot(p)].bidder # None
    BY <1>1, <1>5, <1>6
  <2>3. UNCHANGED <<listed, freed, removal, world, got, crashed, asks, restarts>>
    BY <1>3
  <2>4. \A b \in Auction : /\ house'[b].owner = house[b].owner
                           /\ house[b].deleted => house'[b].deleted
                           /\ spoiled[b] \subseteq spoiled'[b]
                           /\ house[b].bidder # None => house'[b].bidder # None
                           /\ house'[b].reason = "won" => house'[b].bidder # None
    BY <1>7, <2>1
  <2>5. /\ at[p].pc \notin {"idle", "save"} /\ Lot(p) \in listed /\ ~crashed /\ Bidding(f)
        /\ f \in Frames /\ (f = Idle \/ (f.auction = Lot(p) /\ f.pc # "idle"))
        /\ f.pc \in {"test", "mark"} /\ f.price # NoPrice => house'[Lot(p)].bidder # None
    BY <1>1, <1>2, <2>2 DEF Bidding
  <2>6. house' \in [Auction -> Records] /\ spoiled' \in [Auction -> SUBSET Cause]
    BY <1>5, <1>7
  <2>7. \A b \in Auction : row'[b] # NoRow => row'[b].bid \in Nat /\ (row[b] # NoRow \/ b = Lot(p))
    BY <1>8
  <2>8. QED BY <1>2, <1>8, <2>3, <2>4, <2>5, <2>6, <2>7 DEF HandMoves
<1>10. /\ Typed' /\ Places' /\ Served' /\ Sent' /\ Kept' /\ UsedAfterDelete' /\ Marked' /\ QueuedOnce' /\ Won'
       /\ at'[p] = f /\ \A q \in Player : q # p => at'[q] = at[q]
  BY <1>2, <1>9, HandKeeps
<1>11. ASSUME Clean(a)'
       PROVE  Balanced(a)'
  <2>1. Balanced(a) /\ got[a] = <<>>
    <3>1. Balanced(a)
      BY <1>7, <1>11 DEF IInv, Money, Clean
    <3>2. QED BY <3>1, <1>1 DEF Balanced, Free
  <2>2. \A q \in Player : Replaces(q, a) <=> q = p
    BY <1>1, <2>1 DEF Replaces, Balanced
  <2>3. \A q \in Player : ~Replaces(q, a)'
    BY <1>2, <1>10, <2>2 DEF Replaces, Lot
  <2>4. /\ Pays(p, a) /\ ~Pays(p, a)'
        /\ \A q \in Player : q # p => (Pays(q, a)' <=> Pays(q, a)) /\ at'[q] = at[q]
    BY <1>1, <1>2, <1>10 DEF Pays, Lot
  <2>5. \A q \in Player : at[q].price \in Int /\ held[a][q] \in Int
    BY DEF IInv, Typed, AtTyped, Frames, Price, NoPrice, PurseTyped, AuctionAssumption
  <2>6. \A q \in Player : held'[a][q] = Share(q, a)'
    <3>1. \A q \in Player : held[a][q] = IF Pays(q, a) THEN at[q].price ELSE 0
      BY <2>1, <2>2, <2>5 DEF Balanced, Share
    <3>2. \A q \in Player : q # p => Share(q, a)' = IF Pays(q, a) THEN at[q].price ELSE 0
      BY <1>5, <2>4, <2>5 DEF Share
    <3>3. Share(p, a)' = at[p].price
      BY <1>5, <2>3, <2>4, <2>5 DEF Share
    <3>4. QED BY <1>3, <2>4, <3>1, <3>2, <3>3
  <2>7. house[a].reason # "expired"
    BY <1>7, <1>11 DEF IInv, Money, Clean, Marred
  <2>8. QED BY <1>3, <1>5, <2>1, <2>3, <2>6, <2>7 DEF Balanced
<1>12. Money'
  <2>1. \A b \in Auction : b # a /\ Clean(b)' => Balanced(b)'
    BY <1>1, <1>3, <1>5, <1>9, OthersBalance
  <2>2. QED BY <1>5, <1>11, <2>1 DEF IInv, Money
<1>13. QED BY <1>10, <1>12 DEF IInv

LEMMA PushKeeps ==
  ASSUME AuctionAssumption, IInv, NEW p \in Player, Push(p)
  PROVE  IInv'
<1>1. PICK a \in Auction : a = Lot(p) /\ a \in listed /\ at[p].pc = "push" /\ ~crashed
  BY InHand DEF IInv, Push, Uses, Pc
<1>2. PICK f \in Frames : /\ at' = [at EXCEPT ![p] = f] /\ f.pc \in {"idle", "notify"}
                          /\ f = Idle \/ (f.auction = a /\ f.pc # "idle")
  <2>1. CASE Leaves(p)
    <3>1. Idle \in Frames /\ Idle.pc = "idle" /\ at' = [at EXCEPT ![p] = Idle]
      BY <2>1, IsDone
    <3>2. QED BY <3>1
  <2>2. CASE Goto(p, "notify")
    BY <1>1, <2>2, Goes DEF IInv, Pc
  <2>3. QED BY <2>1, <2>2 DEF Push, After
<1>3. /\ removal' = Append(removal, a) /\ world \in {"idle", "served"}
      /\ UNCHANGED <<house, listed, freed, world, row, unsaved, held, got, spoiled, crashed, asks, restarts>>
  BY <1>1 DEF Push, base, purses, bounds
<1>4. removal \in Seq(Auction) /\ removal' \in Seq(Auction) /\ a \notin freed
  BY <1>1, <1>3 DEF IInv, Typed, HouseTyped, Places
<1>5. /\ Len(removal') = Len(removal) + 1 /\ Len(removal) \in Nat /\ removal'[Len(removal) + 1] = a
      /\ \A i \in 1..Len(removal) : removal'[i] = removal[i]
      /\ \A i \in 1..Len(removal') : i \in 1..Len(removal) \/ i = Len(removal) + 1
  BY <1>3, <1>4
<1>6. at'[p] = f /\ \A q \in Player : q # p => at'[q] = at[q]
  BY <1>2 DEF IInv, Typed, AtTyped
<1>7. \A q \in Player : /\ q # p => Lot(q)' = Lot(q)
                        /\ Lot(p)' \in {None, a}
                        /\ at'[q].pc # "idle" => at[q].pc # "idle" /\ Lot(q)' = Lot(q)
  BY <1>1, <1>2, <1>6 DEF Lot, Idle
<1>8. Typed'
  <2>1. HouseTyped'
    BY <1>3, <1>4 DEF IInv, Typed, HouseTyped
  <2>2. AtTyped'
    BY <1>2, <1>3, <1>6 DEF IInv, Typed, AtTyped, Bidding, Idle
  <2>3. BaseTyped' /\ PurseTyped' /\ WorldTyped' /\ Causes'
    BY <1>3, <1>4 DEF IInv, Typed, BaseTyped, PurseTyped, WorldTyped, Causes
  <2>4. QED BY <2>1, <2>2, <2>3 DEF Typed
<1>9. Places'
  <2>1. \A i \in 1..Len(removal') : removal'[i] \in listed \cup freed
    BY <1>1, <1>5 DEF IInv, Places
  <2>2. \A q \in Player : at'[q].pc # "idle" => Lot(q)' \in listed \cup freed
    BY <1>7 DEF IInv, Places
  <2>3. QED BY <1>3, <2>1, <2>2 DEF IInv, Places
<1>10. Marked'
  <2>1. house[a].deleted
    BY <1>1 DEF IInv, Marked
  <2>2. \A i \in 1..Len(removal') : house[removal'[i]].deleted
    BY <1>5, <2>1 DEF IInv, Marked
  <2>3. \A q \in Player : at'[q].pc = "push" => at[q].pc = "push" /\ Lot(q)' = Lot(q)
    BY <1>2, <1>6, <1>7
  <2>4. QED BY <1>3, <2>2, <2>3 DEF IInv, Marked
<1>11. QueuedOnce'
  <2>1. \A q \in Player, b \in Auction : Queues(q, b)' => Queues(q, b) /\ q # p
    BY <1>2, <1>6 DEF Queues, Lot
  <2>2. Queues(p, a)
    BY <1>1 DEF Queues
  <2>3. ASSUME NEW b \in Auction, "again" \notin spoiled[b]
        PROVE  /\ \A i, j \in 1..Len(removal') : removal'[i] = b /\ removal'[j] = b => i = j
               /\ \A i \in 1..Len(removal') : removal'[i] = b => b \notin freed
               /\ \A q, r \in Player : Queues(q, b)' /\ Queues(r, b)' => q = r
               /\ \A q \in Player : Queues(q, b)' => \A i \in 1..Len(removal') : removal'[i] # b
    <3>1. /\ \A i, j \in 1..Len(removal) : removal[i] = b /\ removal[j] = b => i = j
          /\ \A i \in 1..Len(removal) : removal[i] = b => b \notin freed
          /\ \A q, r \in Player : Queues(q, b) /\ Queues(r, b) => q = r
          /\ \A q \in Player : Queues(q, b) => \A i \in 1..Len(removal) : removal[i] # b
      BY <2>3 DEF IInv, QueuedOnce
    <3>2. CASE b = a
      <4>1. \A i \in 1..Len(removal) : removal[i] # a
        BY <2>2, <3>1, <3>2
      <4>2. \A i \in 1..Len(removal') : removal'[i] = a => i = Len(removal) + 1
        BY <1>5, <4>1
      <4>3. \A q \in Player : ~Queues(q, a)'
        BY <2>1, <2>2, <3>1, <3>2
      <4>4. QED BY <1>4, <3>2, <4>2, <4>3
    <3>3. CASE b # a
      <4>1. \A i \in 1..Len(removal') : removal'[i] = b => i \in 1..Len(removal) /\ removal[i] = b
        BY <1>5, <3>3
      <4>2. QED BY <2>1, <3>1, <4>1
    <3>4. QED BY <3>2, <3>3
  <2>4. QED BY <1>3, <2>3 DEF QueuedOnce
<1>12. Served' /\ Sent'
  <2>1. None \notin freed
    BY DEF IInv, Typed, HouseTyped, AuctionAssumption
  <2>2. Served'
    BY <1>3, <1>4, <1>7, <2>1 DEF IInv, Served
  <2>3. Sent'
    BY <1>3 DEF IInv, Sent
  <2>4. QED BY <2>2, <2>3
<1>13. Money'
  BY <1>1, <1>2, <1>3, QuietMoney
<1>14. Won' /\ UsedAfterDelete'
  <2>1. \A q \in Player : at'[q].pc \in {"test", "mark"} => q # p
    BY <1>2, <1>6
  <2>2. Won'
    BY <1>3, <1>6, <2>1 DEF IInv, Won, Lot
  <2>3. QED BY <1>1, <1>3, <2>2 DEF UsedAfterDelete
<1>15. Kept'
  <2>1. \A q \in Player : at[q].pc = "save" => at'[q] = at[q]
    BY <1>1, <1>6
  <2>2. QED BY <1>3, <2>1 DEF IInv, Kept, Ended, Lot
<1>16. QED BY <1>8, <1>9, <1>10, <1>11, <1>12, <1>13, <1>14, <1>15 DEF IInv

\* The thread of p finds an auction in the map and takes it in hand.
TakesUp(p, a, f) ==
  /\ ~crashed /\ at[p] = Idle /\ a \in listed /\ Found(a)
  /\ f \in Frames /\ f.auction = a /\ f.pc \in {"refund", "test"} /\ Bidding(f)
  /\ f.pc = "test" => f.price = NoPrice
  /\ at' = [at EXCEPT ![p] = f]
  /\ asks' \in 0..MaxAsks /\ held' \in [Auction -> [Player -> Int]]
  /\ UNCHANGED <<memory, world, base, got, crashed, restarts>>

LEMMA TakeKeeps ==
  ASSUME AuctionAssumption, IInv, NEW p \in Player, NEW a \in Auction, NEW f, TakesUp(p, a, f)
  PROVE  /\ Typed' /\ Places' /\ Marked' /\ QueuedOnce' /\ Served' /\ Sent' /\ Kept' /\ Won' /\ UsedAfterDelete'
         /\ at'[p] = f /\ \A q \in Player : q # p => at'[q] = at[q]
         /\ \A b \in Auction : Clean(b)' => Clean(b)
         /\ Clean(a)' => got[a] = <<>>
<1>1. /\ UNCHANGED <<house, listed, freed, removal, world, row, unsaved, got, crashed, restarts>>
      /\ f.auction = a /\ f.pc \in {"refund", "test"} /\ a \in listed /\ f \in Frames
      /\ at[p] = Idle /\ ~crashed
      /\ f.pc = "test" => f.price = NoPrice
  BY DEF TakesUp, memory, base
<1>2. at'[p] = f /\ \A q \in Player : q # p => at'[q] = at[q]
  BY DEF TakesUp, IInv, Typed, AtTyped
<1>3. /\ spoiled' \in [Auction -> SUBSET Cause]
      /\ \A b \in Auction : spoiled[b] \subseteq spoiled'[b]
      /\ world = "settled" /\ Head(removal) = a => "served" \in spoiled'[a]
  BY DEF TakesUp, Found, Spoil, IInv, Typed, Causes, Cause
<1>4. Typed'
  <2>1. AtTyped'
    BY <1>1, <1>2 DEF TakesUp, IInv, Typed, AtTyped
  <2>2. HouseTyped' /\ BaseTyped' /\ WorldTyped'
    BY <1>1 DEF IInv, Typed, HouseTyped, BaseTyped, WorldTyped
  <2>3. PurseTyped' /\ Causes'
    BY <1>1, <1>3 DEF TakesUp, IInv, Typed, PurseTyped, Causes
  <2>4. QED BY <2>1, <2>2, <2>3 DEF Typed
<1>5. \A q \in Player : /\ q # p => Lot(q)' = Lot(q)
                        /\ Lot(p)' = a
                        /\ at'[q].pc = "push" => q # p
  BY <1>1, <1>2 DEF Lot
<1>6. Places' /\ Marked'
  <2>1. Places'
    BY <1>1, <1>2, <1>5 DEF IInv, Places
  <2>2. Marked'
    BY <1>1, <1>2, <1>5 DEF IInv, Marked
  <2>3. QED BY <2>1, <2>2
<1>7. QueuedOnce'
  <2>1. \A q \in Player, b \in Auction : Queues(q, b)' => Queues(q, b)
    BY <1>2, <1>5 DEF Queues
  <2>2. \A b \in Auction : "again" \notin spoiled'[b] => "again" \notin spoiled[b]
    BY <1>3
  <2>3. QED BY <1>1, <2>1, <2>2 DEF IInv, QueuedOnce
<1>8. Served'
  <2>1. \A q \in Player : Lot(q) \in freed \/ (world = "settled" /\ Lot(q) = Head(removal))
          => Lot(q) \in Auction
    BY InQueue DEF IInv, Typed, HouseTyped
  <2>2. a \notin freed
    BY <1>1 DEF IInv, Places
  <2>3. QED BY <1>1, <1>3, <1>5, <2>1, <2>2 DEF IInv, Served
<1>9. Sent'
  <2>1. freed \subseteq Auction
    BY DEF IInv, Typed, HouseTyped
  <2>2. QED BY <1>1, <1>3, <2>1 DEF IInv, Sent
<1>10. Won' /\ UsedAfterDelete'
  <2>1. Won'
    BY <1>1, <1>2, <1>5 DEF IInv, Won
  <2>2. QED BY <1>1, <2>1 DEF UsedAfterDelete
<1>11. \A b \in Auction : Clean(b)' => Clean(b)
  BY <1>3 DEF Clean
<1>12. Clean(a)' => got[a] = <<>>
  BY <1>1, <1>3 DEF IInv, Sent, Places, Clean, Marred
<1>13. Kept'
  <2>1. \A q \in Player : at[q].pc = "save" => at'[q] = at[q]
    BY <1>1, <1>2 DEF Idle
  <2>2. QED BY <1>1, <1>3, <2>1 DEF IInv, Kept, Ended, Lot
<1>14. QED BY <1>2, <1>4, <1>6, <1>7, <1>8, <1>9, <1>10, <1>11, <1>12, <1>13

LEMMA BidKeeps ==
  ASSUME AuctionAssumption, IInv, NEW p \in Player, NEW a \in Auction, NEW price \in Price,
         Bid(p, a, price)
  PROVE  IInv'
<1> DEFINE f == [pc |-> "refund", auction |-> a, price |-> price]
<1>1. /\ held' = [held EXCEPT ![a][p] = @ + price] /\ price \in Int
      /\ UNCHANGED <<house, listed, freed, removal, world, row, unsaved, got, crashed, restarts>>
      /\ asks' \in 0..MaxAsks /\ at[p] = Idle
      /\ held \in [Auction -> [Player -> Int]]
  BY DEF Bid, memory, base, Price, IInv, Typed, AtTyped, PurseTyped, AuctionAssumption
<1>2. /\ held' \in [Auction -> [Player -> Int]]
      /\ \A b \in Auction : b # a => held'[b] = held[b]
      /\ \A q \in Player : held'[a][q] = held[a][q] + (IF q = p THEN price ELSE 0)
  BY <1>1
<1>3. TakesUp(p, a, f)
  BY <1>1, <1>2 DEF Bid, TakesUp, Frames, Pc, Price, NoPrice, Bidding, AuctionAssumption
<1>4. f.pc = "refund" /\ f.auction = a /\ f.price = price
  OBVIOUS
<1> HIDE DEF f
<1>5. /\ Typed' /\ Places' /\ Marked' /\ QueuedOnce' /\ Served' /\ Sent' /\ Kept' /\ Won' /\ UsedAfterDelete'
      /\ at'[p] = f /\ \A q \in Player : q # p => at'[q] = at[q]
      /\ \A b \in Auction : Clean(b)' => Clean(b)
      /\ Clean(a)' => got[a] = <<>>
  BY <1>3, TakeKeeps
<1>6. \A q \in Player, b \in Auction :
        /\ Replaces(q, b)' <=> Replaces(q, b)
        /\ q # p \/ b # a => (Pays(q, b)' <=> Pays(q, b))
        /\ Pays(p, a)' /\ ~Pays(p, a) /\ at'[p].price = price
        /\ Pays(q, b) => at'[q].price = at[q].price
  BY <1>1, <1>4, <1>5 DEF Replaces, Pays, Lot, Idle
<1>7. ASSUME NEW b \in Auction, Clean(b)'
      PROVE  Balanced(b)'
  <2>1. Balanced(b)
    BY <1>5, <1>7 DEF IInv, Money
  <2>2. CASE b # a
    <3>1. \A q \in Player : Share(q, b)' = Share(q, b)
      BY <1>1, <1>6, <2>2 DEF Share
    <3>2. Free(b) => Free(b)'
      BY <1>4, <1>5, <2>2 DEF Free, Lot
    <3>3. QED BY <1>1, <1>2, <1>6, <2>1, <2>2, <3>1, <3>2 DEF Balanced
  <2>3. CASE b = a
    <3>1. got[a] = <<>> /\ \A q \in Player : held[a][q] = Share(q, a)
      BY <1>5, <1>7, <2>1, <2>3 DEF Balanced
    <3>2. \A q \in Player : at[q].price \in Int /\ house[a].bid \in Int
      BY DEF IInv, Typed, AtTyped, Frames, Price, NoPrice, HouseTyped, Records, AuctionAssumption
    <3>3. \A q \in Player : Share(q, a)' = Share(q, a) + (IF q = p THEN price ELSE 0)
      BY <1>1, <1>6, <3>2 DEF Share
    <3>4. \A q \in Player : held'[a][q] = Share(q, a)'
      BY <1>2, <3>1, <3>3
    <3>5. QED BY <1>1, <1>6, <2>1, <2>3, <3>1, <3>4 DEF Balanced
  <2>4. QED BY <2>2, <2>3
<1>8. Money'
  BY <1>1, <1>7 DEF IInv, Money
<1>9. QED BY <1>5, <1>8 DEF IInv

LEMMA CancelKeeps ==
  ASSUME AuctionAssumption, IInv, NEW p \in Player, NEW a \in Auction, Cancel(p, a)
  PROVE  IInv'
<1> DEFINE f == [pc |-> "test", auction |-> a, price |-> NoPrice]
<1>1. /\ UNCHANGED <<house, listed, freed, removal, world, row, unsaved, held, got, crashed, restarts>>
      /\ asks' \in 0..MaxAsks /\ at[p] = Idle
  BY DEF Cancel, memory, base, purses, IInv, Typed, AtTyped, AuctionAssumption
<1>2. TakesUp(p, a, f)
  BY <1>1 DEF Cancel, TakesUp, Frames, Pc, Bidding, AuctionAssumption, IInv, Typed, PurseTyped
<1>3. f.pc = "test" /\ f.auction = a
  OBVIOUS
<1> HIDE DEF f
<1>4. /\ Typed' /\ Places' /\ Marked' /\ QueuedOnce' /\ Served' /\ Sent' /\ Kept' /\ Won' /\ UsedAfterDelete'
      /\ at'[p] = f /\ \A q \in Player : q # p => at'[q] = at[q]
      /\ \A b \in Auction : Clean(b)' => Clean(b)
      /\ Clean(a)' => got[a] = <<>>
  BY <1>2, TakeKeeps
<1>5. \A q \in Player, b \in Auction : /\ Replaces(q, b)' <=> Replaces(q, b)
                                       /\ Pays(q, b)' <=> Pays(q, b)
                                       /\ Pays(q, b) => at'[q].price = at[q].price
  BY <1>1, <1>3, <1>4 DEF Replaces, Pays, Lot, Idle
<1>6. \A q \in Player, b \in Auction : Share(q, b)' = Share(q, b)
  BY <1>1, <1>5 DEF Share
<1>7. \A b \in Auction : Clean(b)' /\ got[b] # <<>> /\ Free(b) => Free(b)'
  BY <1>3, <1>4 DEF Free, Lot
<1>8. Money'
  BY <1>1, <1>4, <1>5, <1>6, <1>7 DEF IInv, Money, Balanced
<1>9. QED BY <1>4, <1>8 DEF IInv

-----------------------------------------------------------------------------
\* The world thread, the database and a restart leave what the players have in hand.
LEMMA SameHands ==
  ASSUME at' = at
  PROVE  /\ \A q \in Player : Lot(q)' = Lot(q)
         /\ \A q \in Player, a \in Auction : /\ Pays(q, a)' <=> Pays(q, a)
                                             /\ Replaces(q, a)' <=> Replaces(q, a)
                                             /\ Queues(q, a)' <=> Queues(q, a)
         /\ \A a \in Auction : Free(a)' <=> Free(a)
         /\ \A q \in Player, a \in Auction :
              house'[a].bidder = house[a].bidder /\ house'[a].bid = house[a].bid
                => Share(q, a)' = Share(q, a)
<1>1. /\ \A q \in Player : Lot(q)' = Lot(q)
      /\ \A q \in Player, a \in Auction : /\ Pays(q, a)' <=> Pays(q, a)
                                          /\ Replaces(q, a)' <=> Replaces(q, a)
                                          /\ Queues(q, a)' <=> Queues(q, a)
      /\ \A a \in Auction : Free(a)' <=> Free(a)
  BY DEF Lot, Pays, Replaces, Queues, Free
<1>2. QED BY <1>1 DEF Share

\* Serve, Skip and Perform.
LEMMA ServeKeeps ==
  ASSUME AuctionAssumption, IInv, Serve \/ Skip \/ \E a \in Auction : Perform(a)
  PROVE  IInv'
<1>1. /\ UNCHANGED <<house, listed, freed, removal, at, row, held, got, spoiled, crashed, asks, restarts>>
      /\ unsaved' \subseteq unsaved /\ ~crashed
  BY DEF Serve, Skip, Perform, memory, base, purses, bounds
<1>2. /\ world' \in {"idle", "serving", "settled", "served"}
      /\ world' = "serving" => removal # <<>>
      /\ world' = "settled" <=> world = "settled"
      /\ world' = world \/ world' \in {"idle", "served", "serving"}
  BY DEF Serve, Skip, Perform, IInv, Typed, WorldTyped
<1>3. Typed'
  <2>1. HouseTyped' /\ AtTyped' /\ BaseTyped'
    BY <1>1 DEF IInv, Typed, HouseTyped, AtTyped, BaseTyped
  <2>2. PurseTyped' /\ WorldTyped' /\ Causes'
    BY <1>1, <1>2 DEF IInv, Typed, PurseTyped, WorldTyped, Causes
  <2>3. QED BY <2>1, <2>2 DEF Typed
<1>4. Places' /\ Marked' /\ Kept' /\ Won' /\ UsedAfterDelete'
  BY <1>1, <1>2, SameHands DEF IInv, Places, Marked, Kept, Ended, Won, UsedAfterDelete
<1>5. QueuedOnce'
  BY <1>1, SameHands DEF IInv, QueuedOnce
<1>6. Served' /\ Sent'
  BY <1>1, <1>2, SameHands DEF IInv, Served, Sent
<1>7. Money'
  BY <1>1, SameHands DEF IInv, Money, Balanced, Clean
<1>8. QED BY <1>3, <1>4, <1>5, <1>6, <1>7 DEF IInv

LEMMA SettleKeeps ==
  ASSUME AuctionAssumption, IInv, Settle
  PROVE  IInv'
<1>1. PICK a \in Auction : /\ a = Head(removal) /\ a = removal[1] /\ 1 \in 1..Len(removal)
                           /\ removal # <<>>
  BY InQueue DEF IInv, Settle
<1>2. /\ UNCHANGED <<house, listed, freed, removal, at, row, unsaved, crashed, asks, restarts>>
      /\ ~crashed /\ world = "serving" /\ world' = "settled" /\ a \notin freed
      /\ Mails(a)
      /\ spoiled' = IF \E q \in Player : Lot(q) = a THEN [spoiled EXCEPT ![a] = @ \cup {"served"}] ELSE spoiled
  BY <1>1 DEF Settle, memory, base, bounds, Spoil
<1>3. /\ house[a] \in Records /\ house[a].owner \in Player
      /\ house[a].reason = "won" => house[a].bidder \in Player
  <2>1. house[a] \in Records
    BY DEF IInv, Typed, HouseTyped
  <2>2. house[a].owner # None
    BY <1>1 DEF IInv, Places
  <2>3. QED BY <2>1, <2>2 DEF Records, IInv, Won
<1>4. PICK whom \in Player : got' = [got EXCEPT ![a] = Append(@, whom)]
  BY <1>2, <1>3 DEF Mails
<1>5. /\ got' \in [Auction -> Seq(Player)] /\ got'[a] = Append(got[a], whom)
      /\ got[a] \in Seq(Player)
      /\ \A b \in Auction : b # a => got'[b] = got[b]
  BY <1>4 DEF IInv, Typed, PurseTyped
<1>6. /\ held' \in [Auction -> [Player -> Int]]
      /\ \A b \in Auction : b # a => held'[b] = held[b]
      /\ house[a].reason # "expired" =>
           \A q \in Player : held'[a][q] = held[a][q] - (IF house[a].bidder = q THEN house[a].bid ELSE 0)
      /\ house[a].reason = "expired" => held'[a] = held[a]
  <2>1. /\ held \in [Auction -> [Player -> Int]] /\ house[a].bid \in Nat
        /\ house[a].bidder \in Player \cup {None} /\ None \notin Player
    BY <1>3 DEF IInv, Typed, PurseTyped, Records, AuctionAssumption
  <2>2. CASE house[a].reason = "expired"
    BY <2>1, <2>2, <1>2 DEF Mails
  <2>3. CASE house[a].reason # "expired" /\ house[a].bidder = None
    BY <2>1, <2>3, <1>2 DEF Mails, PaidBack
  <2>4. CASE house[a].reason # "expired" /\ house[a].bidder # None
    <3>1. held' = [held EXCEPT ![a][house[a].bidder] = @ - house[a].bid]
      BY <2>4, <1>2 DEF Mails, PaidBack
    <3>2. QED BY <2>1, <2>4, <3>1
  <2>5. QED BY <2>2, <2>3, <2>4
<1>7. /\ spoiled' \in [Auction -> SUBSET Cause]
      /\ \A b \in Auction : spoiled[b] \subseteq spoiled'[b]
      /\ \A q \in Player : Lot(q) = a => "served" \in spoiled'[a]
  BY <1>2 DEF IInv, Typed, Causes, Cause
<1>8. Typed'
  <2>1. HouseTyped' /\ AtTyped' /\ BaseTyped'
    BY <1>2 DEF IInv, Typed, HouseTyped, AtTyped, BaseTyped
  <2>2. PurseTyped' /\ WorldTyped' /\ Causes'
    BY <1>1, <1>2, <1>5, <1>6, <1>7 DEF IInv, Typed, PurseTyped, WorldTyped, Causes
  <2>3. QED BY <2>1, <2>2 DEF Typed
<1>9. Places' /\ Marked' /\ Won' /\ UsedAfterDelete'
  BY <1>2, SameHands DEF IInv, Places, Marked, Won, UsedAfterDelete
<1>10. QueuedOnce'
  BY <1>2, <1>7, SameHands DEF IInv, QueuedOnce
<1>11. Served'
  <2>1. \A q \in Player : Lot(q) \in freed => "served" \in spoiled'[Lot(q)]
    BY <1>7 DEF IInv, Served, Typed, HouseTyped
  <2>2. QED BY <1>1, <1>2, <1>7, <2>1, SameHands DEF Served
<1>12. "ghost" \notin spoiled[a] => got[a] = <<>>
  BY <1>2 DEF IInv, Sent
<1>13. Sent'
  <2>1. "ghost" \notin spoiled'[a] => Len(got'[a]) = 1
    BY <1>5, <1>7, <1>12
  <2>2. \A b \in Auction : b # a /\ "ghost" \notin spoiled'[b] /\ got'[b] # <<>> =>
          Len(got'[b]) = 1 /\ b \in freed
    BY <1>2, <1>5, <1>7 DEF IInv, Sent
  <2>3. \A b \in freed : "ghost" \notin spoiled'[b] => row[b] = NoRow
    BY <1>7 DEF IInv, Sent, Typed, HouseTyped
  <2>4. QED BY <1>1, <1>2, <2>1, <2>2, <2>3 DEF Sent
<1>14. ASSUME NEW b \in Auction, Clean(b)'
       PROVE  Balanced(b)'
  <2>1. Balanced(b) /\ Clean(b)
    BY <1>7, <1>14 DEF IInv, Money, Clean
  <2>2. CASE b # a
    BY <1>2, <1>5, <1>6, <2>1, <2>2, SameHands, ZenonT(30) DEF Balanced
  <2>3. CASE b = a
    <3>1. Free(a) /\ got[a] = <<>> /\ got'[a] # <<>>
      BY <1>5, <1>7, <1>12, <1>14, <2>1, <2>3 DEF Clean, Marred, Free
    <3>2. \A q \in Player : ~Pays(q, a) /\ ~Replaces(q, a)
      BY <3>1 DEF Free, Pays, Replaces
    <3>3. /\ \A q \in Player : held[a][q] = IF house[a].bidder = q THEN house[a].bid ELSE 0
          /\ house[a].bid \in Int
      BY <1>3, <2>1, <2>3, <3>1, <3>2 DEF Balanced, Share, Records
    <3>4. house[a].reason = "expired" => house[a].bidder = None
      BY <2>1, <2>3 DEF Balanced
    <3>5. \A q \in Player : held'[a][q] = 0
      BY <1>6, <3>3, <3>4 DEF AuctionAssumption
    <3>6. QED BY <1>2, <2>1, <2>3, <3>1, <3>5, SameHands DEF Balanced
  <2>4. QED BY <2>2, <2>3
<1>15. Money'
  BY <1>2, <1>14 DEF IInv, Money
<1>16. Kept'
  <2>1. \A b \in Auction : got[b] # <<>> => got'[b] # <<>>
    BY <1>5
  <2>2. \A b \in Auction : Ended(b)' => Ended(b)
    BY <1>2 DEF Ended
  <2>3. \A b \in Auction : Ended(b)' /\ "dropped" \notin spoiled'[b] => got'[b] # <<>>
    BY <1>7, <2>1, <2>2 DEF IInv, Kept
  <2>4. got'[Head(removal')] # <<>>
    BY <1>1, <1>2, <1>5
  <2>5. QED BY <1>2, <2>3, <2>4, SameHands DEF IInv, Kept
<1>17. QED BY <1>8, <1>9, <1>10, <1>11, <1>13, <1>15, <1>16 DEF IInv

LEMMA DiscardKeeps ==
  ASSUME AuctionAssumption, IInv, Discard
  PROVE  IInv'
<1>1. PICK a \in Auction : /\ a = Head(removal) /\ a = removal[1] /\ 1 \in 1..Len(removal)
                           /\ removal # <<>>
  BY InQueue DEF IInv, Discard
<1>2. /\ UNCHANGED <<house, at, unsaved, held, got, crashed, asks, restarts>>
      /\ ~crashed /\ world = "settled"
      /\ listed' = listed \ {a} /\ freed' = freed \cup {a}
      /\ row' = IF a \in unsaved THEN row ELSE [row EXCEPT ![a] = NoRow]
      /\ removal' = Tail(removal)
      /\ world' = IF Tail(removal) = <<>> THEN "served" ELSE "serving"
      /\ spoiled' = IF a \in unsaved THEN [spoiled EXCEPT ![a] = @ \cup {"ghost"}] ELSE spoiled
  BY <1>1 DEF Discard, purses, bounds, Spoil
<1>3. /\ removal' \in Seq(Auction)
      /\ Len(removal') = Len(removal) - 1
      /\ \A i \in 1..Len(removal') : i + 1 \in 1..Len(removal) /\ removal'[i] = removal[i + 1]
                                     /\ i + 1 # 1 /\ i \in Int
  BY <1>1, <1>2 DEF IInv, Typed, HouseTyped
<1>4. /\ spoiled' \in [Auction -> SUBSET Cause]
      /\ \A b \in Auction : spoiled[b] \subseteq spoiled'[b]
      /\ a \in unsaved => "ghost" \in spoiled'[a]
  BY <1>2 DEF IInv, Typed, Causes, Cause
<1>5. /\ row' \in [Auction -> Rows]
      /\ a \notin unsaved => row'[a] = NoRow
      /\ \A b \in Auction : b # a => row'[b] = row[b]
      /\ \A b \in Auction : row'[b] # NoRow => row'[b] = row[b] /\ row[b] # NoRow
  <2>1. row \in [Auction -> Rows] /\ NoRow \in Rows
    BY DEF IInv, Typed, BaseTyped, Rows, NoRow
  <2>2. QED BY <1>2, <2>1
<1>6. Typed'
  <2>1. HouseTyped' /\ AtTyped'
    BY <1>2, <1>3 DEF IInv, Typed, HouseTyped, AtTyped
  <2>2. BaseTyped'
    BY <1>2, <1>5 DEF IInv, Typed, BaseTyped
  <2>3. PurseTyped' /\ WorldTyped' /\ Causes'
    BY <1>2, <1>4 DEF IInv, Typed, PurseTyped, WorldTyped, Causes
  <2>4. QED BY <2>1, <2>2, <2>3 DEF Typed
<1>7. Places'
  <2>1. listed' \cup freed' = listed \cup freed /\ listed' \cap freed' = {}
    BY <1>1, <1>2 DEF IInv, Places
  <2>2. /\ \A i \in 1..Len(removal') : removal'[i] \in listed' \cup freed'
        /\ \A q \in Player : at'[q].pc # "idle" => Lot(q)' \in listed' \cup freed'
        /\ \A b \in Auction : row'[b] # NoRow => b \in listed' \cup freed'
    BY <1>2, <1>3, <1>5, <2>1, SameHands DEF IInv, Places
  <2>3. QED BY <1>2, <2>1, <2>2 DEF IInv, Places
<1>8. Marked'
  <2>1. house[a].deleted
    BY <1>1 DEF IInv, Marked
  <2>2. QED BY <1>2, <1>3, <2>1, SameHands DEF IInv, Marked
<1>9. QueuedOnce'
  <2>1. ASSUME NEW b \in Auction, "again" \notin spoiled'[b]
        PROVE  /\ \A i, j \in 1..Len(removal') : removal'[i] = b /\ removal'[j] = b => i = j
               /\ \A i \in 1..Len(removal') : removal'[i] = b => b \notin freed'
               /\ \A q, r \in Player : Queues(q, b) /\ Queues(r, b) => q = r
               /\ \A q \in Player : Queues(q, b) => \A i \in 1..Len(removal') : removal'[i] # b
    <3>1. /\ \A i, j \in 1..Len(removal) : removal[i] = b /\ removal[j] = b => i = j
          /\ \A i \in 1..Len(removal) : removal[i] = b => b \notin freed
          /\ \A q, r \in Player : Queues(q, b) /\ Queues(r, b) => q = r
          /\ \A q \in Player : Queues(q, b) => \A i \in 1..Len(removal) : removal[i] # b
      BY <1>4, <2>1 DEF IInv, QueuedOnce
    <3>2. \A i, j \in 1..Len(removal') : removal'[i] = b /\ removal'[j] = b => i = j
      BY <1>3, <3>1
    <3>3. \A i \in 1..Len(removal') : removal'[i] = b => b \notin freed'
      BY <1>1, <1>2, <1>3, <3>1
    <3>4. \A q \in Player : Queues(q, b) => \A i \in 1..Len(removal') : removal'[i] # b
      BY <1>3, <3>1
    <3>5. QED BY <3>1, <3>2, <3>3, <3>4
  <2>2. QED BY <1>2, <2>1, SameHands DEF QueuedOnce
<1>10. Served'
  <2>1. \A q \in Player : Lot(q) \in freed' => Lot(q) \in Auction /\ "served" \in spoiled[Lot(q)]
    BY <1>1, <1>2 DEF IInv, Served, Typed, HouseTyped
  <2>2. QED BY <1>2, <1>4, <2>1, SameHands DEF Served
<1>11. Sent'
  <2>1. \A b \in freed' : "ghost" \notin spoiled'[b] => row'[b] = NoRow
    BY <1>1, <1>2, <1>4, <1>5 DEF IInv, Sent, Typed, HouseTyped
  <2>2. \A b \in Auction : "ghost" \notin spoiled'[b] /\ got'[b] # <<>> => Len(got'[b]) = 1 /\ b \in freed'
    BY <1>1, <1>2, <1>4 DEF IInv, Sent
  <2>3. QED BY <2>1, <2>2 DEF Sent
<1>12. Money' /\ Won' /\ UsedAfterDelete'
  <2>1. \A b \in Auction : Clean(b)' => Clean(b)
    BY <1>4 DEF Clean
  <2>2. \A b \in Auction : Balanced(b) => Balanced(b)'
    BY <1>2, SameHands DEF Balanced
  <2>3. Money'
    BY <1>2, <2>1, <2>2 DEF IInv, Money
  <2>4. Won' /\ UsedAfterDelete'
    BY <1>2, SameHands DEF IInv, Won, UsedAfterDelete
  <2>5. QED BY <2>3, <2>4
<1>13. Kept'
  <2>1. \A b \in Auction : Ended(b)' => Ended(b) \/ b = a
    BY <1>2 DEF Ended
  <2>2. got[a] # <<>>
    BY <1>1, <1>2 DEF IInv, Kept
  <2>3. \A b \in Auction : Ended(b)' /\ "dropped" \notin spoiled'[b] => got'[b] # <<>>
    BY <1>2, <1>4, <2>1, <2>2 DEF IInv, Kept
  <2>4. \A b \in listed' : b \in Auction /\ b # a
    BY <1>2 DEF IInv, Typed, HouseTyped
  <2>5. QED BY <1>2, <1>5, <2>3, <2>4, SameHands DEF IInv, Kept
<1>14. QED BY <1>6, <1>7, <1>8, <1>9, <1>10, <1>11, <1>12, <1>13 DEF IInv

LEMMA SweepKeeps ==
  ASSUME AuctionAssumption, IInv, NEW Past \in SUBSET Auction, Sweep(Past)
  PROVE  IInv'
<1>1. /\ UNCHANGED <<listed, freed, at, row, unsaved, held, got, crashed, asks, restarts>>
      /\ ~crashed /\ Past \subseteq listed /\ world = "served" /\ world' = "idle"
      /\ house' = [a \in Auction |-> IF a \in Past
                     THEN [house[a] EXCEPT !.deleted = TRUE,
                             !.reason = IF house[a].bidder = None THEN "expired" ELSE "won"]
                     ELSE house[a]]
      /\ spoiled' = [a \in Auction |-> IF a \in Past /\ house[a].deleted
                                       THEN spoiled[a] \cup {"again"} ELSE spoiled[a]]
  BY DEF Sweep, base, purses, bounds
<1>2. PICK s \in SetToSeqs(Past) : removal' = removal \o s
  BY DEF Sweep
<1>3. /\ s \in Seq(Auction) /\ s \in Seq(Past) /\ Len(s) \in Nat
      /\ \A i \in 1..Len(s) : s[i] \in Past
      /\ \A i, j \in 1..Len(s) : s[i] = s[j] => i = j
  BY SweptOrder
<1>4. /\ removal' \in Seq(Auction) /\ Len(removal) \in Nat /\ Len(removal') = Len(removal) + Len(s)
      /\ \A i \in 1..Len(removal) : removal'[i] = removal[i] /\ removal[i] \in Auction
      /\ \A i \in 1..Len(removal') : i \in 1..Len(removal)
           \/ (i - Len(removal) \in 1..Len(s) /\ removal'[i] = s[i - Len(removal)])
  BY <1>2, <1>3 DEF IInv, Typed, HouseTyped
<1>5. /\ house' \in [Auction -> Records]
      /\ \A a \in Auction : /\ a \in Past => house'[a].deleted
                            /\ a \notin Past => house'[a] = house[a]
                            /\ house[a].deleted => house'[a].deleted
                            /\ house'[a].owner = house[a].owner
                            /\ house'[a].bidder = house[a].bidder /\ house'[a].bid = house[a].bid
      /\ \A a \in Past : house'[a].reason = IF house[a].bidder = None THEN "expired" ELSE "won"
  <2>1. \A a \in Auction : house[a] \in Records
    BY DEF IInv, Typed, HouseTyped
  <2>2. \A a \in Auction : house'[a] \in Records
    BY <1>1, <2>1, ZenonT(30) DEF Records
  <2>3. QED BY <1>1, <2>1, <2>2, ZenonT(30) DEF Records
<1>6. /\ spoiled' \in [Auction -> SUBSET Cause]
      /\ \A a \in Auction : spoiled[a] \subseteq spoiled'[a]
      /\ \A a \in Past : house[a].deleted => "again" \in spoiled'[a]
      /\ \A a \in Auction : Clean(a)' => Clean(a)
  BY <1>1 DEF IInv, Typed, Causes, Cause, Clean
<1>7. Typed'
  <2>1. HouseTyped' /\ AtTyped'
    BY <1>1, <1>4, <1>5 DEF IInv, Typed, HouseTyped, AtTyped
  <2>2. BaseTyped' /\ PurseTyped' /\ WorldTyped' /\ Causes'
    BY <1>1, <1>6 DEF IInv, Typed, BaseTyped, PurseTyped, WorldTyped, Causes
  <2>3. QED BY <2>1, <2>2 DEF Typed
<1>8. Places'
  <2>1. \A i \in 1..Len(removal') : removal'[i] \in listed \cup freed
    BY <1>1, <1>3, <1>4 DEF IInv, Places
  <2>2. \A a \in listed \cup freed : house'[a].owner # None
    BY <1>5 DEF IInv, Places, Typed, HouseTyped
  <2>3. QED BY <1>1, <2>1, <2>2, SameHands DEF IInv, Places
<1>9. Marked'
  <2>1. \A i \in 1..Len(removal') : house'[removal'[i]].deleted
    BY <1>3, <1>4, <1>5, ZenonT(30) DEF IInv, Marked
  <2>2. \A a \in freed : house'[a].deleted
    BY <1>5 DEF IInv, Marked, Typed, HouseTyped
  <2>3. \A q \in Player : at[q].pc = "push" => house'[Lot(q)].deleted
    BY <1>5, InHand DEF IInv, Marked
  <2>4. QED BY <1>1, <2>1, <2>2, <2>3, SameHands DEF Marked
<1>10. QueuedOnce'
  <2>1. ASSUME NEW b \in Auction, "again" \notin spoiled'[b]
        PROVE  /\ \A i, j \in 1..Len(removal') : removal'[i] = b /\ removal'[j] = b => i = j
               /\ \A i \in 1..Len(removal') : removal'[i] = b => b \notin freed
               /\ \A q, r \in Player : Queues(q, b) /\ Queues(r, b) => q = r
               /\ \A q \in Player : Queues(q, b) => \A i \in 1..Len(removal') : removal'[i] # b
    <3>1. /\ \A i, j \in 1..Len(removal) : removal[i] = b /\ removal[j] = b => i = j
          /\ \A i \in 1..Len(removal) : removal[i] = b => b \notin freed
          /\ \A q, r \in Player : Queues(q, b) /\ Queues(r, b) => q = r
          /\ \A q \in Player : Queues(q, b) => \A i \in 1..Len(removal) : removal[i] # b
      BY <1>6, <2>1 DEF IInv, QueuedOnce
    <3>2. CASE b \in Past
      <4>1. ~house[b].deleted /\ b \notin freed
        BY <1>1, <1>6, <2>1, <3>2 DEF IInv, Places
      <4>2. /\ \A i \in 1..Len(removal) : removal[i] # b
            /\ \A q \in Player : ~Queues(q, b)
        BY <4>1 DEF IInv, Marked, Queues
      <4>3. \A i \in 1..Len(removal') : removal'[i] = b =>
              i - Len(removal) \in 1..Len(s) /\ s[i - Len(removal)] = b /\ i \in Int
        BY <1>4, <4>2
      <4>4. \A i, j \in 1..Len(removal') : removal'[i] = b /\ removal'[j] = b => i = j
        BY <1>3, <1>4, <4>3
      <4>5. QED BY <4>1, <4>2, <4>4
    <3>3. CASE b \notin Past
      <4>1. ASSUME NEW i \in 1..Len(removal'), removal'[i] = b
            PROVE  i \in 1..Len(removal) /\ removal[i] = b
        <5>1. i \in 1..Len(removal)
          BY <1>3, <1>4, <3>3, <4>1
        <5>2. QED BY <1>4, <4>1, <5>1
      <4>2. QED BY <3>1, <4>1
    <3>4. QED BY <3>2, <3>3
  <2>2. QED BY <1>1, <2>1, SameHands DEF QueuedOnce
<1>11. Served' /\ Sent'
  <2>1. Served'
    BY <1>1, <1>6, SameHands DEF IInv, Served, Typed, HouseTyped
  <2>2. Sent'
    BY <1>1, <1>6 DEF IInv, Sent, Typed, HouseTyped
  <2>3. QED BY <2>1, <2>2
<1>12. Money'
  <2>1. \A b \in Auction : house'[b].reason = "expired" =>
          /\ house'[b].deleted
          /\ house[b].reason = "expired" \/ house'[b].bidder = None
    BY <1>5 DEF IInv, Money
  <2>2. ASSUME NEW b \in Auction, Balanced(b)
        PROVE  Balanced(b)'
    <3>1. \A q \in Player : Share(q, b)' = Share(q, b) /\ (Replaces(q, b)' <=> Replaces(q, b))
      BY <1>1, <1>5, SameHands
    <3>2. Free(b)' <=> Free(b)
      BY <1>1, SameHands
    <3>3. house'[b].reason = "expired" => house'[b].bidder = None
      BY <1>5, <2>1, <2>2 DEF Balanced
    <3>4. QED BY <1>1, <2>2, <3>1, <3>2, <3>3 DEF Balanced
  <2>3. QED BY <1>6, <2>1, <2>2 DEF IInv, Money
<1>13. Won' /\ UsedAfterDelete'
  <2>1. \A q \in Player : at[q].pc \in {"test", "mark"} => Lot(q) \in Auction
    BY InHand DEF IInv
  <2>2. \A b \in Auction : house'[b].reason = "won" => house'[b].bidder # None
    BY <1>5 DEF IInv, Won
  <2>3. \A q \in Player : at[q].pc \in {"test", "mark"} /\ at[q].price # NoPrice => house'[Lot(q)].bidder # None
    BY <1>5, <2>1 DEF IInv, Won
  <2>4. Won'
    BY <1>1, <2>2, <2>3, SameHands DEF Won
  <2>5. QED BY <1>1, <2>4 DEF UsedAfterDelete
<1>14. Kept'
  <2>1. \A b \in Auction : Ended(b)' => Ended(b)
    BY <1>1, <1>5 DEF Ended
  <2>2. QED BY <1>1, <1>6, <2>1, SameHands DEF IInv, Kept
<1>15. QED BY <1>7, <1>8, <1>9, <1>10, <1>11, <1>12, <1>13, <1>14 DEF IInv

LEMMA DanglingKeeps ==
  ASSUME AuctionAssumption, IInv, Dangling
  PROVE  IInv'
<1>1. /\ UNCHANGED <<house, listed, freed, removal, at, world, row, unsaved, held, got, spoiled, asks, restarts>>
      /\ crashed' = TRUE
  BY DEF Dangling, memory, base, purses, bounds
<1>2. Typed'
  <2>1. HouseTyped' /\ AtTyped' /\ BaseTyped'
    BY <1>1 DEF IInv, Typed, HouseTyped, AtTyped, BaseTyped
  <2>2. PurseTyped' /\ WorldTyped' /\ Causes'
    BY <1>1 DEF IInv, Typed, PurseTyped, WorldTyped, Causes
  <2>3. QED BY <2>1, <2>2 DEF Typed
<1>3. Places' /\ Marked' /\ Won' /\ Served' /\ Sent' /\ Kept'
  BY <1>1, SameHands DEF IInv, Places, Marked, Won, Served, Sent, Kept, Ended
<1>4. QueuedOnce'
  BY <1>1, SameHands DEF IInv, QueuedOnce
<1>5. Money'
  BY <1>1, SameHands DEF IInv, Money, Balanced, Clean
<1>6. \E a \in freed : spoiled[a] \cap {"again", "served"} # {}
  <2>1. CASE \E p \in Player : Lot(p) \in freed
    BY <2>1 DEF IInv, Served
  <2>2. CASE world = "serving" /\ Head(removal) \in freed
    <3>1. 1 \in 1..Len(removal) /\ removal[1] = Head(removal) /\ removal[1] \in Auction
      BY <2>2, InQueue DEF IInv
    <3>2. "again" \in spoiled[removal[1]]
      BY <2>2, <3>1 DEF IInv, QueuedOnce
    <3>3. QED BY <2>2, <3>1, <3>2
  <2>3. QED BY <2>1, <2>2 DEF Dangling
<1>7. UsedAfterDelete'
  BY <1>1, <1>6 DEF UsedAfterDelete
<1>8. QED BY <1>2, <1>3, <1>4, <1>5, <1>7 DEF IInv

LEMMA RestartKeeps ==
  ASSUME AuctionAssumption, IInv, NEW kept \in SUBSET Auction, Restart(kept)
  PROVE  IInv'
<1>1. /\ UNCHANGED <<at, world, unsaved, held, got, crashed, asks>>
      /\ ~crashed /\ world = "idle"
      /\ listed' = kept /\ \A a \in kept : row[a] # NoRow
      /\ freed' = freed \ kept /\ removal' = <<>>
      /\ row' = [a \in Auction |-> IF a \in kept THEN row[a] ELSE NoRow]
  BY DEF Restart, purses
<1>2. \A p \in Player : at[p] = Idle /\ at[p].pc = "idle" /\ Lot(p) = None
  <2>1. \A p \in Player : at[p] = Idle
    BY DEF Restart
  <2>2. QED BY <2>1 DEF Idle, Lot
<1>3. /\ house' = [a \in Auction |-> IF a \in kept
                     THEN [house[a] EXCEPT !.bidder = row[a].bidder, !.bid = row[a].bid,
                                           !.deleted = FALSE, !.reason = "none"]
                     ELSE house[a]]
      /\ spoiled' = [a \in Auction |-> spoiled[a]
                       \cup (IF a \in listed /\ row[a] # Terms(a) THEN {"restart"} ELSE {})
                       \cup (IF row[a] # NoRow /\ a \notin kept THEN {"dropped"} ELSE {})]
  BY DEF Restart
<1>4. restarts' \in 0..MaxRestarts
  <2>1. restarts < MaxRestarts /\ restarts' = restarts + 1
    BY DEF Restart
  <2>2. QED BY <2>1 DEF IInv, Typed, BaseTyped, AuctionAssumption
<1>5. /\ house' \in [Auction -> Records]
      /\ \A a \in Auction : a \notin kept => house'[a] = house[a]
      /\ \A a \in kept : /\ house'[a].bidder = row[a].bidder /\ house'[a].bid = row[a].bid
                          /\ house'[a].reason = "none"
      /\ \A a \in Auction : house'[a].owner = house[a].owner
  <2>1. \A a \in Auction : house[a] \in Records
    BY DEF IInv, Typed, HouseTyped
  <2>2. \A a \in Auction : row[a] # NoRow => row[a].bidder \in Player \cup {None} /\ row[a].bid \in Nat
    BY DEF IInv, Typed, BaseTyped, Rows
  <2>3. \A a \in Auction : house'[a] \in Records
    BY <1>1, <1>3, <2>1, <2>2, ZenonT(30) DEF Records
  <2>4. ASSUME NEW a \in kept
        PROVE  /\ house'[a].bidder = row[a].bidder /\ house'[a].bid = row[a].bid
               /\ house'[a].reason = "none" /\ house'[a].owner = house[a].owner
    <3>1. house[a] \in Records
      BY <2>1
    <3>2. house'[a] = [house[a] EXCEPT !.bidder = row[a].bidder, !.bid = row[a].bid,
                                       !.deleted = FALSE, !.reason = "none"]
      BY <1>3
    <3>3. QED BY <3>1, <3>2 DEF Records
  <2>5. house' \in [Auction -> Records] /\ \A a \in Auction : a \notin kept => house'[a] = house[a]
    BY <1>3, <2>3
  <2>6. \A a \in Auction : house'[a].owner = house[a].owner
    BY <2>4, <2>5
  <2>7. QED BY <2>4, <2>5, <2>6
<1>6. /\ spoiled' \in [Auction -> SUBSET Cause]
      /\ \A a \in Auction : spoiled[a] \subseteq spoiled'[a]
      /\ \A a \in listed : row[a] # Terms(a) => "restart" \in spoiled'[a]
      /\ \A a \in Auction : row[a] # NoRow /\ a \notin kept => "dropped" \in spoiled'[a]
      /\ \A a \in Auction : Clean(a)' => Clean(a)
  BY <1>3 DEF IInv, Typed, HouseTyped, Causes, Cause, Clean
<1>7. /\ row' \in [Auction -> Rows]
      /\ \A a \in Auction : row'[a] # NoRow => row'[a] = row[a] /\ a \in kept
      /\ \A a \in kept : row'[a] # NoRow
  <2>1. row \in [Auction -> Rows] /\ NoRow \in Rows
    BY DEF IInv, Typed, BaseTyped, Rows, NoRow
  <2>2. QED BY <1>1, <2>1
<1>8. Typed'
  <2>1. removal' \in Seq(Auction) /\ listed' \subseteq Auction /\ freed' \subseteq Auction
    BY <1>1 DEF IInv, Typed, HouseTyped
  <2>2. HouseTyped' /\ AtTyped'
    BY <1>1, <1>5, <2>1 DEF IInv, Typed, HouseTyped, AtTyped
  <2>3. BaseTyped'
    BY <1>1, <1>4, <1>7 DEF IInv, Typed, BaseTyped
  <2>4. PurseTyped' /\ WorldTyped' /\ Causes'
    BY <1>1, <1>6 DEF IInv, Typed, PurseTyped, WorldTyped, Causes
  <2>5. QED BY <2>2, <2>3, <2>4 DEF Typed
<1>9. Len(removal') = 0
  BY <1>1
<1>10. Places'
  <2>1. listed' \cup freed' \subseteq listed \cup freed /\ listed \cup freed \subseteq Auction
    BY <1>1 DEF IInv, Places, Typed, HouseTyped
  <2>2. \A a \in listed' \cup freed' : house'[a].owner # None
    BY <1>5, <2>1 DEF IInv, Places
  <2>3. QED BY <1>1, <1>2, <1>7, <1>9, <2>2 DEF Places
<1>11. Marked'
  <2>1. \A a \in freed' : house'[a].deleted
    BY <1>1, <1>5 DEF IInv, Marked, Typed, HouseTyped
  <2>2. QED BY <1>1, <1>2, <1>9, <2>1 DEF Marked
<1>12. QueuedOnce'
  <2>1. \A q \in Player, b \in Auction : ~Queues(q, b)'
    BY <1>1, <1>2 DEF Queues
  <2>2. QED BY <1>9, <2>1 DEF QueuedOnce
<1>13. Served'
  BY <1>1, <1>2, SameHands DEF Served, IInv, Typed, HouseTyped, AuctionAssumption
<1>14. Sent'
  <2>1. \A a \in freed' : row'[a] = NoRow
    BY <1>1, <1>7 DEF IInv, Typed, HouseTyped
  <2>2. \A a \in Auction : "ghost" \notin spoiled'[a] /\ got'[a] # <<>> => Len(got'[a]) = 1 /\ a \in freed'
    BY <1>1, <1>6 DEF IInv, Sent
  <2>3. QED BY <2>1, <2>2 DEF Sent
<1>15. ASSUME NEW a \in Auction, Clean(a)'
       PROVE  Balanced(a)'
  <2>1. Balanced(a) /\ Clean(a)
    BY <1>6, <1>15 DEF IInv, Money
  <2>2. a \in kept => a \in listed /\ row[a] = Terms(a)
    <3>1. a \in kept => a \in listed
      BY <1>1, <2>1 DEF IInv, Places, Sent, Clean, Marred
    <3>2. QED BY <1>6, <1>15, <3>1 DEF Clean, Marred
  <2>3. house'[a].bidder = house[a].bidder /\ house'[a].bid = house[a].bid
    BY <1>5, <2>2 DEF Terms
  <2>4. house'[a].reason = "expired" => house[a].reason = "expired"
    BY <1>5
  <2>5. /\ \A q \in Player : Share(q, a)' = Share(q, a) /\ (Replaces(q, a)' <=> Replaces(q, a))
        /\ Free(a)' <=> Free(a)
    BY <1>1, <2>3, SameHands
  <2>6. QED BY <1>1, <2>1, <2>3, <2>4, <2>5 DEF Balanced
<1>16. Money'
  BY <1>1, <1>5, <1>15 DEF IInv, Money
<1>17. Won' /\ UsedAfterDelete'
  BY <1>1, <1>2, <1>5 DEF IInv, Won, UsedAfterDelete
<1>18. Kept'
  <2>1. \A a \in listed : row[a] # NoRow
    BY <1>2 DEF IInv, Kept
  <2>2. \A a \in Auction : Ended(a)' => Ended(a) \/ (row[a] # NoRow /\ a \notin kept)
    BY <1>1, <1>5, <2>1 DEF Ended
  <2>3. \A a \in Auction : Ended(a)' /\ "dropped" \notin spoiled'[a] => got'[a] # <<>>
    BY <1>1, <1>6, <2>2 DEF IInv, Kept
  <2>4. QED BY <1>1, <1>7, <2>3 DEF Kept
<1>19. QED BY <1>8, <1>10, <1>11, <1>12, <1>13, <1>14, <1>16, <1>17, <1>18 DEF IInv

LEMMA AuctionNext == AuctionAssumption /\ IInv /\ [Next]_vars => IInv'
<1> SUFFICES ASSUME AuctionAssumption, IInv, [Next]_vars PROVE IInv'
  OBVIOUS
<1>1. ASSUME NEW p \in Player, Ask(p) PROVE IInv'
  BY <1>1, SellKeeps, BidKeeps, CancelKeeps DEF Ask
<1>2. ASSUME NEW p \in Player, Handle(p) PROVE IInv'
  BY <1>2, SaveToDBKeeps, RefundKeeps, SetBidKeeps, TestKeeps, MarkKeeps, PushKeeps DEF Handle
<1>3. ASSUME Update PROVE IInv'
  BY <1>3, ServeKeeps, SettleKeeps, DiscardKeeps, SweepKeeps DEF Update
<1>4. ASSUME \/ \E a \in Auction : Perform(a)
             \/ \E kept \in SUBSET Auction : Restart(kept)
      PROVE  IInv'
  BY <1>4, ServeKeeps, RestartKeeps
<1>5. CASE UNCHANGED vars
  <2>1. UNCHANGED <<house, listed, freed, removal, at, world, row, unsaved, held, got, spoiled, crashed,
                    asks, restarts>>
    BY <1>5 DEF vars, memory, base, purses, bounds
  <2>2. Typed'
    BY <2>1 DEF IInv, Typed, HouseTyped, AtTyped, BaseTyped, PurseTyped, WorldTyped, Causes
  <2>3. Places' /\ Marked' /\ Won' /\ Served' /\ Sent' /\ Kept' /\ UsedAfterDelete'
    BY <2>1, SameHands DEF IInv, Places, Marked, Won, Served, Sent, Kept, Ended, UsedAfterDelete
  <2>4. QueuedOnce'
    BY <2>1, SameHands DEF IInv, QueuedOnce
  <2>5. Money'
    BY <2>1, SameHands DEF IInv, Money, Balanced, Clean
  <2>6. QED BY <2>2, <2>3, <2>4, <2>5 DEF IInv
<1>6. QED BY <1>1, <1>2, <1>3, <1>4, <1>5, DanglingKeeps DEF Next

-----------------------------------------------------------------------------
\* The inductive invariant: where an auction can be, who has it in hand, how often it is queued
\* and what each player has paid into it, whatever the threads of the maps and the world thread do.
THEOREM AuctionInvariant == Spec => []IInv
BY AuctionInit, AuctionNext, AuctionAssumption, PTL DEF Spec

\* The fields of the auctions, the queue, the rows and the purses keep their types; in particular
\* a winner's item is sent to a player (RemoveAuction).
THEOREM AuctionTypes == Spec => []TypeOK
<1>1. IInv => TypeOK
  BY Types DEF IInv
<1>2. QED BY AuctionInvariant, <1>1, PTL

\* When an auction is over nobody's money is left in it (HandleAuctionPlaceBid, RemoveAuction),
\* but for the causes the property names.
THEOREM AuctionMoneyIsReturned == Spec => []MoneyIsReturned
<1>1. IInv => MoneyIsReturned
  BY DEF IInv, Money, Balanced, MoneyIsReturned, Kept, Clean, Marred
<1>2. QED BY AuctionInvariant, <1>1, PTL

\* An auction ends with its item sent, once (RemoveAuction), over restarts too, unless the item
\* was not found or the row came back.
THEOREM AuctionItemOnce == Spec => []ItemOnce
<1>1. IInv => ItemOnce
  <2> SUFFICES ASSUME IInv, NEW a \in Auction
               PROVE  /\ Ended(a) /\ "dropped" \notin spoiled[a] => got[a] # <<>>
                      /\ "ghost" \notin spoiled[a] => Len(got[a]) <= 1
    BY DEF ItemOnce
  <2>1. Ended(a) /\ "dropped" \notin spoiled[a] => got[a] # <<>>
    BY DEF IInv, Kept
  <2>2. "ghost" \notin spoiled[a] => Len(got[a]) \in {0, 1}
    <3>1. "ghost" \notin spoiled[a] /\ got[a] # <<>> => Len(got[a]) = 1
      BY DEF IInv, Sent
    <3>2. got[a] = <<>> => Len(got[a]) = 0
      OBVIOUS
    <3>3. QED BY <3>1, <3>2
  <2>3. \A n \in {0, 1} : n <= 1
    OBVIOUS
  <2>4. QED BY <2>1, <2>2, <2>3, Zenon
<1>2. QED BY AuctionInvariant, <1>1, PTL

\* A freed auction is used only if it was queued twice or settled while in hand (QueueDeletion,
\* UpdateDeletionQueue).
THEOREM AuctionUsedAfterDelete == Spec => []UsedAfterDelete
<1>1. IInv => UsedAfterDelete
  BY DEF IInv
<1>2. QED BY AuctionInvariant, <1>1, PTL
=================================================================================
