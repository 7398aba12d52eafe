-------------------------- MODULE AuctionRoomProofs --------------------------
(***************************************************************************)
(* Proofs about AuctionRoom, for every auction, window, number of bids and *)
(* set of events: the price shown is the leader's, a snapshot brings a     *)
(* browser up to date, and a decided bid is not shown as pending.          *)
(*                                                                         *)
(* A snapshot is reconciled bid by bid (ReconcileAll, a recursion over the *)
(* sequence).  Induction is done by the least counterexample: WFMin, which *)
(* quantifies over sets, gives the least-number principle.                 *)
(***************************************************************************)
EXTENDS AuctionRoom, TLAPS, FiniteSetTheorems, SequenceTheorems, WellFoundedInduction

Ran(s) == {s[i] : i \in 1..Len(s)}
Key(b) == <<b.bidder, b.n>>
KeysDistinct(A) == \A b, c \in A : Key(b) = Key(c) => b = c
PosDistinct(s) == \A i, j \in 1..Len(s) : Key(s[i]) = Key(s[j]) => i = j
RanksNoWorse(a, b) == RanksFirst(AuctionType, a, b)

\* Bids, entries of the store, messages.
Statuses == {"pending", "confirmed", "rejected"}
BidRec == [bidder : Bidders, n : Nat, amount : Amounts]
EntryRec == [id : ({"local"} \cup Bidders) \X Nat, bidder : {"optimistic"} \cup Bidders,
             amount : Amounts, status : Statuses]
Stores == [known : BOOLEAN, price : Nat, bids : SUBSET EntryRec, status : {"waiting", "active", "ended"}]
Phases == {"none", "check", "waiting", "checked", "joined", "leading", "recent", "serving"}
Sessions == [phase : Phases, completed : BOOLEAN, best : Nat, leading : Seq(BidRec), recent : Seq(BidRec)]
UpdateRec == [type : {"update"}, bid : BidRec, executed : BOOLEAN]
InitRec == [type : {"init"}, leading : Seq(BidRec), recent : Seq(BidRec), best : Nat]

Shapes ==
    /\ pipeline \in Seq(BidRec) /\ accepted \in Seq(BidRec) /\ updates \in Seq(UpdateRec)
    /\ session \in Sessions /\ sent \subseteq BidRec /\ inbox \in Seq(UpdateRec \cup InitRec)
    /\ store \in Stores /\ bids \in [Bidders -> Nat] /\ base \in Nat /\ told \subseteq Nat

\* The bids that wait for a decision, the accepted ones, the decisions and the
\* snapshots on their way to the browser.
Queue == Ran(pipeline)
Acc == Ran(accepted)
News == Ran(updates) \cup {m \in Ran(inbox) : m.type = "update"}
Snapshots == {m \in Ran(inbox) : m.type = "init"}

\* Every accepted bid beats the start price and the ones before it.
LedgerInv ==
    /\ \A i \in 1..Len(accepted) : RanksNoWorse(accepted[i].amount, StartPrice)
    /\ \A i, j \in 1..Len(accepted) : i <= j => RanksNoWorse(accepted[j].amount, accepted[i].amount)

\* A bid is in one place, and its number has been given out.
KeysInv ==
    /\ \A b \in sent \cup Queue \cup Acc : b.n <= bids[b.bidder]
    /\ \A u \in News : u.bid.n <= bids[u.bid.bidder]
    /\ \A n \in told : n <= bids["me"]
    /\ \A b \in sent : b.bidder = "me"
    /\ \A b, c \in sent : b.n = c.n => b = c
    /\ PosDistinct(pipeline)
    /\ \A b \in sent : \A c \in Queue \cup Acc : Key(b) # Key(c)
    /\ \A b \in Queue : \A c \in Acc : Key(b) # Key(c)
    /\ KeysDistinct(Acc)

\* A refused bid is not accepted and never will be.
NewsInv ==
    \A u \in News :
        /\ u.executed => u.bid \in Acc
        /\ ~u.executed => \A b \in sent \cup Queue \cup Acc : Key(b) # Key(u.bid)

\* The room is joined before the snapshot is read: a snapshot covers the price at
\* the time of joining.
Covers(seq, best) == best = StartPrice \/ \E b \in Ran(seq) : RanksNoWorse(b.amount, best)
SnapshotInv ==
    /\ session.best = StartPrice \/ \E a \in Acc : a.amount = session.best
    /\ Ran(session.leading) \cup Ran(session.recent) \subseteq Acc
    /\ session.phase \in {"leading", "recent"} => Covers(session.leading, session.best)
    /\ \A m \in Snapshots : Ran(m.leading) \cup Ran(m.recent) \subseteq Acc /\ Covers(m.leading, m.best)

\* An entry of the store is one of this browser's bids, or has the id of a decided
\* bid; a confirmed one with such an id is an accepted bid.
EntryOK(b, acc, count) ==
    /\ b.id[2] <= count[IF b.id[1] = "local" THEN "me" ELSE b.id[1]]
    /\ b.status = "pending" => b.id[1] = "local"
    /\ b.id[1] # "local" /\ b.status = "confirmed" => \E a \in acc : Key(a) = b.id /\ a.amount = b.amount
    /\ b.status # "rejected" => RanksNoWorse(b.amount, StartPrice)
Bounded(bs) == \E top \in Amounts \cup {StartPrice} : \A b \in bs : b.amount <= top
IdsUnique(bs) == \A b, c \in bs : b.id = c.id => b = c
EntriesInv ==
    /\ IdsUnique(store.bids) /\ Bounded(store.bids)
    /\ \A b \in store.bids : EntryOK(b, Acc, bids)

\* The price is that of the best entry that is not rejected, or the start price.
IsLead(p, bs) ==
    IF Valid(bs) = {} THEN p = StartPrice
    ELSE /\ \E b \in Valid(bs) : b.amount = p
         /\ \A b \in Valid(bs) : RanksNoWorse(p, b.amount)
PriceInv == store.known => IsLead(store.price, store.bids)

\* A confirmed entry keeps the price at what it was when the room was joined.
Backed(best, bs) == best = StartPrice \/ \E b \in bs : b.status = "confirmed" /\ RanksNoWorse(b.amount, best)
BackedInv == store.known => Backed(base, store.bids)

\* The entry of an own bid has its amount; when the store also has an entry from
\* the decision about it, the decision has been seen.
OwnOK(b, bs) == b.bidder = "me" => \A c \in bs : c.id = <<"local", b.n>> => c.amount = b.amount
OwnInv ==
    /\ \A b \in sent \cup Queue : OwnOK(b, store.bids)
    /\ \A u \in News : OwnOK(u.bid, store.bids)
    /\ \A b, c \in store.bids : b.id[1] = "me" /\ c.id = <<"local", b.id[2]>> => b.id[2] \in told

RoomInv ==
    /\ Shapes /\ LedgerInv /\ KeysInv /\ NewsInv /\ SnapshotInv
    /\ EntriesInv /\ PriceInv /\ BackedInv /\ OwnInv /\ DecidedIsNotPending

-----------------------------------------------------------------------------
(* Numbers, order and sequences *)

\* The least-number principle.
LEMMA LeastNatural ==
    ASSUME NEW T, T \subseteq Nat, T # {}
    PROVE  \E m \in T : \A k \in T : m <= k
  <1> DEFINE R == OpToRel(<, Nat)
  <1>1. IsWellFoundedOn(R, Nat)
    BY NatLessThanWellFounded
  <1>2. \A x, y \in Nat : x < y => <<x, y>> \in R
    BY DEF OpToRel
  <1> HIDE DEF R
  <1>3. PICK m \in T : \A k \in T : ~ (<<k, m>> \in R)
    BY <1>1, WFMin, Zenon
  <1>4. \A k \in T : ~ (k < m)
    <2> TAKE k \in T
    <2>1. k \in Nat /\ m \in Nat
      OBVIOUS
    <2>2. QED
      BY <1>2, <1>3, <2>1, Zenon
  <1>5. QED
    BY <1>4

\* A bounded set of numbers has a greatest one.
LEMMA GreatestNatural ==
    ASSUME NEW T, T \subseteq Nat, T # {}, NEW top \in Nat, \A k \in T : k <= top
    PROVE  \E m \in T : \A k \in T : k <= m
  <1> DEFINE U == {n \in Nat : \A k \in T : k <= n}
  <1>1. U # {}
    OBVIOUS
  <1>2. PICK m \in U : \A n \in U : m <= n
    BY <1>1, LeastNatural
  <1>3. m \in T
    <2> SUFFICES ASSUME m \notin T PROVE FALSE
      OBVIOUS
    <2>1. \A k \in T : k <= m - 1
      BY <1>2
    <2>2. m - 1 \in U
      <3>1. PICK k \in T : TRUE
        OBVIOUS
      <3>2. k <= m - 1 /\ k \in Nat /\ m \in Nat
        BY <1>2, <2>1, <3>1
      <3>3. m - 1 \in Nat
        BY <3>2
      <3>4. QED
        BY <2>1, <3>3
    <2>3. QED
      BY <1>2, <2>2
  <1>4. QED
    BY <1>2, <1>3

\* The order of the prices is total, reflexive and transitive.
LEMMA RanksOrder ==
    /\ \A a \in Nat : RanksNoWorse(a, a)
    /\ \A a, b \in Nat : RanksNoWorse(a, b) \/ RanksNoWorse(b, a)
    /\ \A a, b \in Nat : RanksNoWorse(a, b) /\ RanksNoWorse(b, a) => a = b
    /\ \A a, b, c \in Nat : RanksNoWorse(a, b) /\ RanksNoWorse(b, c) => RanksNoWorse(a, c)
  BY DEF RanksNoWorse, RanksFirst

\* Amounts are positive numbers, and so is the start price.
LEMMA AmountsType == Amounts \subseteq Nat /\ StartPrice \in Nat /\ StartPrice # 0
  BY RoomAssumption

\* What is appended to a queue, what is left of it and what is at its head.
LEMMA RanAppend ==
    ASSUME NEW S, NEW s \in Seq(S), NEW e \in S
    PROVE  Append(s, e) \in Seq(S) /\ Ran(Append(s, e)) = Ran(s) \cup {e}
  <1>1. Append(s, e) \in Seq(S) /\ Len(s) \in Nat /\ Len(Append(s, e)) = Len(s) + 1
    OBVIOUS
  <1>2. \A i \in 1..Len(s) : Append(s, e)[i] = s[i]
    OBVIOUS
  <1>3. Append(s, e)[Len(s) + 1] = e
    OBVIOUS
  <1>4. 1..Len(s) + 1 = 1..Len(s) \cup {Len(s) + 1}
    BY <1>1
  <1>5. QED
    BY <1>1, <1>2, <1>3, <1>4 DEF Ran

\* What is left of a sequence after its first element.
LEMMA RanTail ==
    ASSUME NEW S, NEW s \in Seq(S), s # <<>>
    PROVE  /\ Tail(s) \in Seq(S) /\ Head(s) \in S /\ Len(s) \in Nat /\ Len(s) >= 1
           /\ Len(Tail(s)) = Len(s) - 1
           /\ Head(s) = s[1] /\ \A i \in 1..Len(Tail(s)) : Tail(s)[i] = s[i + 1]
           /\ Ran(Tail(s)) \subseteq Ran(s) /\ Head(s) \in Ran(s)
  <1>1. Tail(s) \in Seq(S) /\ Head(s) \in S /\ Len(s) \in Nat /\ Len(s) >= 1
    OBVIOUS
  <1>2. Len(Tail(s)) = Len(s) - 1 /\ Head(s) = s[1]
    BY <1>1
  <1>3. \A i \in 1..Len(Tail(s)) : Tail(s)[i] = s[i + 1]
    BY <1>1
  <1>4. \A i \in 1..Len(Tail(s)) : i + 1 \in 1..Len(s)
    BY <1>1, <1>2
  <1>5. Ran(Tail(s)) \subseteq Ran(s)
    BY <1>3, <1>4 DEF Ran
  <1>6. Head(s) \in Ran(s)
    BY <1>1, <1>2 DEF Ran
  <1>7. QED
    BY <1>1, <1>2, <1>3, <1>5, <1>6

\* The elements of a sequence are of its type.
LEMMA RanType ==
    ASSUME NEW S, NEW s \in Seq(S)
    PROVE  Ran(s) \subseteq S
  BY DEF Ran

-----------------------------------------------------------------------------
(* The price and the entries *)

\* The amount the reconciliation computes exists and ranks first.
LEMMA LeadingExists ==
    ASSUME NEW bs, bs \subseteq EntryRec, Bounded(bs), bs # {}
    PROVE  /\ \E b \in bs : b.amount = Leading(bs)
           /\ \A b \in bs : RanksNoWorse(Leading(bs), b.amount)
  <1> DEFINE T == {b.amount : b \in bs}
  <1>1. T \subseteq Nat /\ T # {}
    BY AmountsType DEF EntryRec
  <1>2. PICK top \in Amounts \cup {StartPrice} : \A b \in bs : b.amount <= top
    BY DEF Bounded
  <1>3. top \in Nat /\ \A k \in T : k <= top
    BY <1>2, AmountsType
  <1>4. \E m \in T : \A k \in T : RanksNoWorse(m, k)
    <2>1. CASE AuctionType = "REVERSE"
      <3>1. PICK m \in T : \A k \in T : m <= k
        BY <1>1, LeastNatural
      <3>2. QED
        BY <2>1, <3>1 DEF RanksNoWorse, RanksFirst
    <2>2. CASE AuctionType # "REVERSE"
      <3>1. PICK m \in T : \A k \in T : k <= m
        BY <1>1, <1>3, GreatestNatural
      <3>2. \A k \in T : k \in Nat /\ m \in Nat /\ m >= k
        BY <1>1, <3>1
      <3>3. QED
        BY <2>2, <3>1, <3>2 DEF RanksNoWorse, RanksFirst
    <2>3. QED
      BY <2>1, <2>2
  <1>5. PICK m \in T : \A k \in T : RanksNoWorse(m, k)
    BY <1>4
  <1>6. m \in T /\ \A b \in bs : RanksFirst(AuctionType, m, b.amount)
    BY <1>5 DEF RanksNoWorse
  <1>7. Leading(bs) \in T /\ \A b \in bs : RanksFirst(AuctionType, Leading(bs), b.amount)
    BY <1>6 DEF Leading
  <1>8. QED
    BY <1>7 DEF RanksNoWorse

\* reconcileBid computes the price of the leader.
LEMMA LeadingPriceIsLead ==
    ASSUME NEW s \in Stores, NEW bs, bs \subseteq EntryRec, Bounded(bs)
    PROVE  /\ LeadingPrice(s, bs) \in Nat
           /\ s.known => IsLead(LeadingPrice(s, bs), bs)
  <1>1. Valid(bs) \subseteq EntryRec /\ Bounded(Valid(bs))
    BY DEF Valid, Bounded
  <1>2. CASE Valid(bs) = {}
    BY <1>2, AmountsType DEF LeadingPrice, IsLead
  <1>3. CASE Valid(bs) # {}
    <2>1. LeadingPrice(s, bs) = Leading(Valid(bs))
      BY <1>3 DEF LeadingPrice
    <2>2. /\ \E b \in Valid(bs) : b.amount = Leading(Valid(bs))
          /\ \A b \in Valid(bs) : RanksNoWorse(Leading(Valid(bs)), b.amount)
      BY <1>1, <1>3, LeadingExists
    <2>3. Leading(Valid(bs)) \in Nat
      BY <1>1, <2>2, AmountsType DEF EntryRec
    <2>4. QED
      BY <1>3, <2>1, <2>2, <2>3 DEF IsLead
  <1>4. QED
    BY <1>2, <1>3

\* The decision about a bid as an entry of the store, with a given id.
EntryOf(id, bid, executed) ==
    [id |-> id, bidder |-> bid.bidder, amount |-> bid.amount,
     status |-> IF executed THEN "confirmed" ELSE "rejected"]

\* One reconciliation: the entry with the bid's id is replaced, or a pending one of
\* its amount when there is none, or an entry is added when there is neither.
ByKey(bs, bid, m) == m.id = Key(bid)
ByAmount(bs, bid, m) ==
    m.status = "pending" /\ m.amount = bid.amount /\ \A b \in bs : b.id # Key(bid)
NoMatch(bs, bid) ==
    /\ \A b \in bs : b.id # Key(bid)
    /\ \A b \in bs : ~ (b.status = "pending" /\ b.amount = bid.amount)

\* One of the three cases always applies.
LEMMA ReconciledCases ==
    ASSUME NEW s \in Stores, NEW bid \in BidRec, NEW executed \in BOOLEAN,
           IdsUnique(s.bids), NEW count \in Nat,
           \A b \in s.bids : b.status = "pending" => b.id[1] = "local" /\ b.id[2] <= count
    PROVE  \/ NoMatch(s.bids, bid) /\ Reconciled(s, bid, executed) = s.bids \cup {EntryOf(Key(bid), bid, executed)}
           \/ \E m \in s.bids :
                 /\ ByKey(s.bids, bid, m) \/ ByAmount(s.bids, bid, m)
                 /\ Reconciled(s, bid, executed) = (s.bids \ {m}) \cup {EntryOf(m.id, bid, executed)}
  <1> DEFINE bs == s.bids
             match == Matches(s, bid)
             same == {b \in bs : b.id = Key(bid)}
             awaiting == {b \in bs : b.status = "pending" /\ b.amount = bid.amount}
             newest == {b \in awaiting : \A c \in awaiting : b.id[2] >= c.id[2]}
  <1>1. match = IF same # {} THEN same ELSE newest
    BY DEF Matches, Key
  <1>2. Reconciled(s, bid, executed) =
            (bs \ match) \cup (IF match = {} THEN {EntryOf(Key(bid), bid, executed)}
                               ELSE {EntryOf(b.id, bid, executed) : b \in match})
    BY DEF Reconciled, EntryOf, Key
  <1>3. bs \subseteq EntryRec
    BY DEF Stores
  <1> HIDE DEF match
  <1>4. CASE same # {}
    <2>1. PICK m \in same : TRUE
      BY <1>4
    <2>2. match = {m}
      BY <1>1, <1>4, <2>1 DEF IdsUnique
    <2>3. Reconciled(s, bid, executed) = (bs \ {m}) \cup {EntryOf(m.id, bid, executed)}
      BY <1>2, <2>2
    <2>4. m \in bs /\ ByKey(bs, bid, m)
      BY <2>1 DEF ByKey
    <2>5. QED
      BY <2>3, <2>4
  <1>5. CASE same = {} /\ awaiting # {}
    <2> DEFINE T == {b.id[2] : b \in awaiting}
    <2>1. \A b \in awaiting : b.id[2] \in Nat /\ b.id[2] <= count
      BY <1>3 DEF EntryRec
    <2>2. T \subseteq Nat /\ T # {} /\ \A k \in T : k <= count
      BY <1>5, <2>1
    <2>3. PICK k \in T : \A l \in T : l <= k
      BY <2>2, GreatestNatural
    <2>4. PICK m \in awaiting : m.id[2] = k
      BY <2>3
    <2>5. m \in newest
      BY <2>1, <2>3, <2>4
    <2>6. \A b \in newest : b = m
      <3> TAKE b \in newest
      <3>1. b \in awaiting /\ b.id[2] >= m.id[2] /\ m.id[2] >= b.id[2]
        BY <2>4, <2>5
      <3>2. b.id[2] = m.id[2]
        BY <2>1, <2>4, <3>1
      <3>3. b.id[1] = "local" /\ m.id[1] = "local"
        BY <2>4, <3>1
      <3>4. b.id = m.id
        BY <1>3, <2>4, <3>1, <3>2, <3>3 DEF EntryRec
      <3>5. QED
        BY <2>4, <3>1, <3>4 DEF IdsUnique
    <2>7. match = {m}
      BY <1>1, <1>5, <2>5, <2>6
    <2>8. Reconciled(s, bid, executed) = (bs \ {m}) \cup {EntryOf(m.id, bid, executed)}
      BY <1>2, <2>7
    <2>9. m \in bs /\ ByAmount(bs, bid, m)
      BY <1>5, <2>4 DEF ByAmount
    <2>10. QED
      BY <2>8, <2>9
  <1>6. CASE same = {} /\ awaiting = {}
    <2>1. match = {}
      BY <1>1, <1>6
    <2>2. Reconciled(s, bid, executed) = bs \cup {EntryOf(Key(bid), bid, executed)}
      BY <1>2, <2>1
    <2>3. NoMatch(bs, bid)
      BY <1>6 DEF NoMatch
    <2>4. QED
      BY <2>2, <2>3
  <1>7. QED
    BY <1>4, <1>5, <1>6

-----------------------------------------------------------------------------
(* A snapshot *)

\* The entries of a store that has been filled from a snapshot.
Confirmed(B) == {EntryOf(Key(b), b, TRUE) : b \in B}

AddsOne(s, bid, B) == Reconciled(s, bid, TRUE) = Confirmed(B \cup {bid})

\* A snapshot's bid adds its entry, or finds it there.
LEMMA ConfirmOne ==
    ASSUME NEW s \in Stores, NEW A, A \subseteq BidRec, KeysDistinct(A),
           NEW B, B \subseteq A, NEW bid \in A, s.bids = Confirmed(B)
    PROVE  AddsOne(s, bid, B)
  <1> USE DEF AddsOne
  <1> DEFINE e == EntryOf(Key(bid), bid, TRUE)
  <1>1. \A m \in s.bids : \E b \in B : m = EntryOf(Key(b), b, TRUE)
    BY DEF Confirmed
  <1>2. \A m \in s.bids : m.status # "pending"
    BY <1>1 DEF EntryOf
  <1>3. IdsUnique(s.bids)
    <2> SUFFICES ASSUME NEW m1 \in s.bids, NEW m2 \in s.bids, m1.id = m2.id PROVE m1 = m2
      BY DEF IdsUnique
    <2>1. PICK b1 \in B : m1 = EntryOf(Key(b1), b1, TRUE)
      BY <1>1
    <2>2. PICK b2 \in B : m2 = EntryOf(Key(b2), b2, TRUE)
      BY <1>1
    <2>3. Key(b1) = Key(b2)
      BY <2>1, <2>2 DEF EntryOf
    <2>4. b1 = b2
      BY <2>3 DEF KeysDistinct
    <2>5. QED
      BY <2>1, <2>2, <2>4
  <1>4. Confirmed(B \cup {bid}) = s.bids \cup {e}
    BY DEF Confirmed
  <1>5. bid \in BidRec
    OBVIOUS
  <1> HIDE DEF e
  <1>6. \/ NoMatch(s.bids, bid) /\ Reconciled(s, bid, TRUE) = s.bids \cup {EntryOf(Key(bid), bid, TRUE)}
        \/ \E m \in s.bids :
              /\ ByKey(s.bids, bid, m) \/ ByAmount(s.bids, bid, m)
              /\ Reconciled(s, bid, TRUE) = (s.bids \ {m}) \cup {EntryOf(m.id, bid, TRUE)}
    <2>1. 0 \in Nat /\ TRUE \in BOOLEAN /\ \A b \in s.bids : b.status = "pending" => b.id[1] = "local" /\ b.id[2] <= 0
      BY <1>2
    <2>2. QED
      BY <1>3, <1>5, <2>1, ReconciledCases
  <1>7. CASE Reconciled(s, bid, TRUE) = s.bids \cup {EntryOf(Key(bid), bid, TRUE)}
    BY <1>4, <1>7 DEF e
  <1>8. ASSUME NEW m \in s.bids, ByKey(s.bids, bid, m) \/ ByAmount(s.bids, bid, m),
               Reconciled(s, bid, TRUE) = (s.bids \ {m}) \cup {EntryOf(m.id, bid, TRUE)}
        PROVE  Reconciled(s, bid, TRUE) = Confirmed(B \cup {bid})
    <2>1. m.id = Key(bid)
      BY <1>2, <1>8 DEF ByKey, ByAmount
    <2>2. PICK b \in B : m = EntryOf(Key(b), b, TRUE)
      BY <1>1
    <2>3. Key(b) = Key(bid)
      BY <2>1, <2>2 DEF EntryOf
    <2>4. b = bid
      BY <2>3 DEF KeysDistinct
    <2>5. m = e
      BY <2>2, <2>4 DEF e
    <2>6. QED
      BY <1>4, <1>8, <2>1, <2>5 DEF e
  <1>9. QED
    BY <1>6, <1>7, <1>8

\* The recursion over a snapshot is well defined.
IsRun(f, n, s, seq) == f = [i \in 0..n |-> IF i = 0 THEN s ELSE ReconcileBid(f[i - 1], seq[i], TRUE)]

\* Such a run exists, by the least snapshot length that has none.
LEMMA RunExists ==
    ASSUME NEW s, NEW seq, NEW n \in Nat
    PROVE  \E f : IsRun(f, n, s, seq)
  <1> DEFINE T == {m \in Nat : ~ \E f : IsRun(f, m, s, seq)}
  <1>1. CASE T = {}
    BY <1>1
  <1>2. CASE T # {}
    <2>1. PICK m \in T : \A k \in T : m <= k
      BY <1>2, LeastNatural
    <2>2. m # 0
      <3>1. IsRun([i \in 0..0 |-> s], 0, s, seq)
        BY DEF IsRun
      <3>2. QED
        BY <2>1, <3>1
    <2>3. m - 1 \in Nat /\ m - 1 \notin T
      BY <2>1, <2>2
    <2>4. PICK f : IsRun(f, m - 1, s, seq)
      BY <2>3
    <2>5. PICK g : g = [i \in 0..m |-> IF i = m THEN ReconcileBid(f[m - 1], seq[m], TRUE) ELSE f[i]]
      OBVIOUS
    <2>6. g = [i \in 0..m |-> IF i = 0 THEN s ELSE ReconcileBid(g[i - 1], seq[i], TRUE)]
      <3>1. \A i \in 0..(m - 1) : f[i] = IF i = 0 THEN s ELSE ReconcileBid(f[i - 1], seq[i], TRUE)
        BY <2>4 DEF IsRun
      <3>2. \A i \in 0..m : i # m => i \in 0..(m - 1) /\ (i # 0 => i - 1 \in 0..m /\ i - 1 # m)
        BY <2>3
      <3>3. m \in 0..m /\ m - 1 \in 0..m /\ m - 1 # m
        BY <2>2, <2>3
      <3>4. \A i \in 0..m : i # m => g[i] = f[i]
        BY <2>5
      <3>5. g[m] = ReconcileBid(g[m - 1], seq[m], TRUE)
        BY <2>5, <3>3, <3>4
      <3>6. \A i \in 0..m : g[i] = IF i = 0 THEN s ELSE ReconcileBid(g[i - 1], seq[i], TRUE)
        BY <2>2, <3>1, <3>2, <3>4, <3>5
      <3>7. QED
        BY <2>5, <3>6
    <2>7. QED
      BY <2>1, <2>6 DEF IsRun
  <1>3. QED
    BY <1>1, <1>2

\* ReconcileAll is the last element of a run.
LEMMA RunOfAll ==
    ASSUME NEW s, NEW seq, Len(seq) \in Nat
    PROVE  \E f : IsRun(f, Len(seq), s, seq) /\ ReconcileAll(s, seq) = f[Len(seq)]
  <1> DEFINE f == CHOOSE g : IsRun(g, Len(seq), s, seq)
  <1>1. IsRun(f, Len(seq), s, seq)
    BY RunExists
  <1>2. ReconcileAll(s, seq) = f[Len(seq)]
    BY DEF ReconcileAll, IsRun
  <1>3. QED
    BY <1>1, <1>2

\* A store filled with accepted bids: what a snapshot has brought so far.
FilledWith(s, B, status) ==
    /\ s \in Stores /\ s.known /\ s.status = status
    /\ s.bids = Confirmed(B) /\ IsLead(s.price, s.bids)

\* One more bid of the snapshot is shown as confirmed, and the price follows.
LEMMA FillOne ==
    ASSUME NEW A, A \subseteq BidRec, KeysDistinct(A), Bounded(Confirmed(A)),
           NEW B, B \subseteq A, NEW bid \in A, NEW s, NEW status, FilledWith(s, B, status)
    PROVE  FilledWith(ReconcileBid(s, bid, TRUE), B \cup {bid}, status)
  <1> DEFINE after == Reconciled(s, bid, TRUE)
             p == LeadingPrice(s, after)
             r == ReconcileBid(s, bid, TRUE)
  <1>1. s \in Stores /\ s.known /\ s.status = status /\ s.bids = Confirmed(B)
    BY DEF FilledWith
  <1>2. after = Confirmed(B \cup {bid})
    <2> HIDE DEF p, r
    <2>1. s \in Stores /\ s.bids = Confirmed(B)
      BY <1>1
    <2>2. AddsOne(s, bid, B)
      BY <2>1, ConfirmOne
    <2>3. QED
      BY <2>2 DEF AddsOne
  <1>3. Confirmed(B \cup {bid}) \subseteq EntryRec
    BY DEF Confirmed, EntryOf, EntryRec, Key, BidRec, Statuses
  <1>4. Bounded(Confirmed(B \cup {bid}))
    BY DEF Bounded, Confirmed
  <1>5. r = [s EXCEPT !.bids = after, !.price = p]
    BY DEF ReconcileBid
  <1>6. p \in Nat /\ IsLead(p, after)
    BY <1>1, <1>2, <1>3, <1>4, LeadingPriceIsLead
  <1> HIDE DEF after, p
  <1>7. r \in Stores /\ r.known /\ r.status = status /\ r.bids = after /\ r.price = p
    BY <1>1, <1>2, <1>3, <1>5, <1>6 DEF Stores
  <1>8. QED
    BY <1>2, <1>6, <1>7 DEF FilledWith

\* Induction along the snapshot: all of its bids are in the store.
LEMMA FillAll ==
    ASSUME NEW A, A \subseteq BidRec, KeysDistinct(A), Bounded(Confirmed(A)),
           NEW B, B \subseteq A, NEW seq \in Seq(BidRec), Ran(seq) \subseteq A,
           NEW s, NEW status, FilledWith(s, B, status)
    PROVE  FilledWith(ReconcileAll(s, seq), B \cup Ran(seq), status)
  <1> DEFINE upTo(i) == {seq[j] : j \in 1..i}
  <1>1. Len(seq) \in Nat
    OBVIOUS
  <1>2. PICK f : IsRun(f, Len(seq), s, seq) /\ ReconcileAll(s, seq) = f[Len(seq)]
    BY <1>1, RunOfAll
  <1>3. f[0] = s /\ \A i \in 1..Len(seq) : f[i] = ReconcileBid(f[i - 1], seq[i], TRUE)
    BY <1>1, <1>2 DEF IsRun
  <1>4. \A i \in 0..Len(seq) : FilledWith(f[i], B \cup upTo(i), status)
    <2> DEFINE T == {i \in 0..Len(seq) : ~FilledWith(f[i], B \cup upTo(i), status)}
    <2> SUFFICES ASSUME T # {} PROVE FALSE
      OBVIOUS
    <2>1. T \subseteq Nat
      BY <1>1
    <2>2. PICK m \in T : \A k \in T : m <= k
      BY <2>1, LeastNatural
    <2>3. m # 0
      <3>1. upTo(0) = {}
        OBVIOUS
      <3>2. B \cup upTo(0) = B
        BY <3>1
      <3>3. FilledWith(f[0], B \cup upTo(0), status)
        BY <1>3, <3>2
      <3>4. QED
        BY <2>2, <3>3
    <2>4. m \in 1..Len(seq) /\ m - 1 \in 0..Len(seq) /\ m - 1 \notin T
      <3>1. m \in 0..Len(seq) /\ \A k \in T : m <= k
        BY <2>2
      <3> HIDE DEF T
      <3>2. m \in 1..Len(seq) /\ m - 1 \in 0..Len(seq) /\ ~ (m <= m - 1)
        BY <1>1, <2>3, <3>1
      <3>3. QED
        BY <3>1, <3>2
    <2>5. FilledWith(f[m - 1], B \cup upTo(m - 1), status)
      BY <2>4
    <2>6. seq[m] \in A /\ B \cup upTo(m - 1) \subseteq A
      <3>1. \A j \in 1..(m - 1) : j \in 1..Len(seq)
        BY <1>1, <2>4
      <3>2. QED
        BY <2>4, <3>1 DEF Ran
    <2>7. B \cup upTo(m) = (B \cup upTo(m - 1)) \cup {seq[m]}
      <3>1. 1..m = 1..(m - 1) \cup {m}
        BY <1>1, <2>4
      <3>2. QED
        BY <3>1
    <2>8. f[m] = ReconcileBid(f[m - 1], seq[m], TRUE)
      BY <1>3, <2>4
    <2> HIDE DEF upTo
    <2>9. FilledWith(f[m], B \cup upTo(m), status)
      <3>1. PICK C : C = B \cup upTo(m - 1)
        OBVIOUS
      <3>2. C \subseteq A /\ FilledWith(f[m - 1], C, status)
        BY <2>5, <2>6, <3>1
      <3>3. FilledWith(ReconcileBid(f[m - 1], seq[m], TRUE), C \cup {seq[m]}, status)
        BY <2>6, <3>2, FillOne
      <3>4. QED
        BY <2>7, <2>8, <3>1, <3>3
    <2>10. QED
      BY <2>2, <2>9
  <1>5. Ran(seq) = upTo(Len(seq)) /\ Len(seq) \in 0..Len(seq)
    BY <1>1 DEF Ran
  <1> HIDE DEF upTo
  <1>6. QED
    BY <1>2, <1>4, <1>5

-----------------------------------------------------------------------------
(* What a step leaves alone *)

\* A bid with a new key keeps the keys of a channel distinct.
LEMMA AppendDistinct ==
    ASSUME NEW s \in Seq(BidRec), NEW e \in BidRec, PosDistinct(s), \A b \in Ran(s) : Key(b) # Key(e)
    PROVE  PosDistinct(Append(s, e))
  <1>1. Len(s) \in Nat /\ Len(Append(s, e)) = Len(s) + 1
    OBVIOUS
  <1>2. \A i \in 1..Len(s) : Append(s, e)[i] = s[i] /\ s[i] \in Ran(s)
    BY DEF Ran
  <1>3. Append(s, e)[Len(s) + 1] = e
    OBVIOUS
  <1>4. \A i \in 1..(Len(s) + 1) : i \in 1..Len(s) \/ i = Len(s) + 1
    BY <1>1
  <1>5. QED
    BY <1>1, <1>2, <1>3, <1>4 DEF PosDistinct

\* Taking the first bid out of a channel keeps its keys distinct.
LEMMA TailDistinct ==
    ASSUME NEW s \in Seq(BidRec), s # <<>>, PosDistinct(s)
    PROVE  PosDistinct(Tail(s)) /\ \A b \in Ran(Tail(s)) : Key(b) # Key(Head(s))
  <1>1. /\ Len(s) \in Nat /\ Len(s) >= 1 /\ Len(Tail(s)) = Len(s) - 1
        /\ Head(s) = s[1] /\ \A i \in 1..Len(Tail(s)) : Tail(s)[i] = s[i + 1]
    BY RanTail
  <1>2. 1 \in 1..Len(s) /\ \A i \in 1..Len(Tail(s)) : i \in Nat /\ i + 1 \in 1..Len(s) /\ i + 1 # 1
    BY <1>1
  <1>3. PosDistinct(Tail(s))
    <2> SUFFICES ASSUME NEW i \in 1..Len(Tail(s)), NEW j \in 1..Len(Tail(s)), Key(Tail(s)[i]) = Key(Tail(s)[j])
                 PROVE  i = j
      BY DEF PosDistinct
    <2>1. i + 1 = j + 1
      BY <1>1, <1>2 DEF PosDistinct
    <2>2. QED
      BY <1>2, <2>1
  <1>4. \A b \in Ran(Tail(s)) : Key(b) # Key(Head(s))
    <2> TAKE b \in Ran(Tail(s))
    <2>1. PICK i \in 1..Len(Tail(s)) : b = Tail(s)[i]
      BY DEF Ran
    <2>2. b = s[i + 1] /\ i + 1 \in 1..Len(s) /\ i + 1 # 1
      BY <1>1, <1>2, <2>1
    <2>3. QED
      BY <1>1, <1>2, <2>2 DEF PosDistinct
  <1>5. QED
    BY <1>3, <1>4

\* More accepted bids and higher bid numbers do not disturb the store.
LEMMA StoreKept ==
    ASSUME RoomInv, UNCHANGED <<base, told>>,
           store'.bids = store.bids, store'.known = store.known, store'.price = store.price,
           Acc \subseteq Acc', bids' \in [Bidders -> Nat], \A x \in Bidders : bids[x] <= bids'[x]
    PROVE  EntriesInv' /\ PriceInv' /\ BackedInv' /\ DecidedIsNotPending'
  <1>1. store.bids \subseteq EntryRec /\ bids \in [Bidders -> Nat]
    BY DEF RoomInv, Shapes, Stores
  <1>2. EntriesInv'
    <2>1. ASSUME NEW b \in store.bids PROVE EntryOK(b, Acc', bids')
      <3>1. EntryOK(b, Acc, bids)
        BY DEF RoomInv, EntriesInv
      <3>2. b.id[2] \in Nat /\ b.id[1] \in {"local"} \cup Bidders
        BY <1>1 DEF EntryRec
      <3>3. PICK x : x = IF b.id[1] = "local" THEN "me" ELSE b.id[1]
        OBVIOUS
      <3>4. x \in Bidders
        BY <3>2, <3>3 DEF Bidders
      <3>5. b.id[2] <= bids[x]
        BY <3>1, <3>3 DEF EntryOK
      <3>6. b.id[2] <= bids'[x]
        BY <1>1, <3>2, <3>4, <3>5
      <3>7. QED
        BY <3>1, <3>3, <3>6 DEF EntryOK
    <2>2. IdsUnique(store.bids) /\ Bounded(store.bids)
      BY DEF RoomInv, EntriesInv
    <2>3. QED
      BY <2>1, <2>2 DEF EntriesInv
  <1>3. PriceInv'
    BY DEF RoomInv, PriceInv
  <1>4. BackedInv'
    BY DEF RoomInv, BackedInv
  <1>5. DecidedIsNotPending'
    BY DEF RoomInv, DecidedIsNotPending, Awaiting, Undecided
  <1>6. QED
    BY <1>2, <1>3, <1>4, <1>5

\* Steps that decide, queue and number no bid and leave the entries alone; messages
\* may be lost, and a snapshot emitted.
LEMMA QuietStep ==
    ASSUME RoomInv, Shapes', UNCHANGED <<accepted, pipeline, bids, base, told>>,
           store'.bids = store.bids, store'.known = store.known, store'.price = store.price,
           sent' \subseteq sent, News' \subseteq News, SnapshotInv'
    PROVE  RoomInv'
  <1>1. Acc' = Acc /\ Queue' = Queue
    BY DEF Acc, Queue
  <1>2. EntriesInv' /\ PriceInv' /\ BackedInv' /\ DecidedIsNotPending'
    <2>1. bids' \in [Bidders -> Nat] /\ \A x \in Bidders : bids[x] <= bids'[x]
      BY DEF Shapes
    <2>2. QED
      BY <1>1, <2>1, StoreKept
  <1>3. LedgerInv'
    BY DEF RoomInv, LedgerInv
  <1>4. KeysInv'
    BY <1>1 DEF RoomInv, KeysInv
  <1>5. NewsInv'
    BY <1>1 DEF RoomInv, NewsInv
  <1>6. OwnInv'
    BY <1>1 DEF RoomInv, OwnInv
  <1>7. QED
    BY <1>2, <1>3, <1>4, <1>5, <1>6 DEF RoomInv

\* The session and the snapshots on their way are left alone, or fewer.
LEMMA SnapshotsKept ==
    ASSUME RoomInv, UNCHANGED session, Snapshots' \subseteq Snapshots, Acc \subseteq Acc'
    PROVE  SnapshotInv'
  BY DEF RoomInv, SnapshotInv

-----------------------------------------------------------------------------
(* The inductive invariant *)

\* A room that is opened shows no bid.
LEMMA RoomInit == Init => RoomInv
  <1> SUFFICES ASSUME Init PROVE RoomInv
    OBVIOUS
  <1>1. /\ pipeline = <<>> /\ accepted = <<>> /\ updates = <<>> /\ inbox = <<>> /\ sent = {}
        /\ session = NoSession /\ store = InitialStore /\ told = {} /\ base = StartPrice
        /\ bids = [b \in Bidders |-> 0]
    BY DEF Init
  <1>2. store.bids = {} /\ store.known = FALSE
    BY <1>1 DEF InitialStore
  <1>3. session.best = StartPrice /\ session.leading = <<>> /\ session.recent = <<>> /\ session.phase = "none"
    BY <1>1 DEF NoSession
  <1>4. Ran(<<>>) = {}
    BY DEF Ran
  <1>5. Queue = {} /\ Acc = {} /\ News = {} /\ Snapshots = {}
    BY <1>1, <1>4 DEF Queue, Acc, News, Snapshots
  <1>6. Shapes
    <2>1. store \in Stores
      BY <1>1 DEF InitialStore, Stores
    <2>2. session \in Sessions
      BY <1>1, AmountsType DEF NoSession, Sessions, Phases
    <2>3. QED
      BY <1>1, <2>1, <2>2, AmountsType DEF Shapes
  <1>7. LedgerInv /\ KeysInv /\ NewsInv
    BY <1>1, <1>5 DEF LedgerInv, KeysInv, NewsInv, PosDistinct, KeysDistinct
  <1>8. SnapshotInv
    BY <1>3, <1>4, <1>5 DEF SnapshotInv
  <1>9. EntriesInv /\ PriceInv /\ BackedInv /\ OwnInv
    BY <1>1, <1>2, <1>5 DEF EntriesInv, IdsUnique, Bounded, PriceInv, BackedInv, OwnInv
  <1>10. DecidedIsNotPending
    <2>1. \A a \in Amounts : Awaiting(a) = {} /\ Undecided(a) = {}
      BY <1>2 DEF Awaiting, Undecided
    <2>2. Cardinality({}) <= Cardinality({})
      BY FS_EmptySet
    <2>3. QED
      BY <2>1, <2>2 DEF DecidedIsNotPending
  <1>11. QED
    BY <1>6, <1>7, <1>8, <1>9, <1>10 DEF RoomInv

\* The timer worker, its message, the scheduler and the clock touch the status only.
LEMMA TimerStep ==
    ASSUME RoomInv,
           \/ WorkerTick \/ OnWorkerMessage \/ Hydrate \/ Tick \/ UNCHANGED vars
    PROVE  RoomInv'
  <1>1. /\ UNCHANGED <<accepted, pipeline, updates, bids, base, told, session, sent, inbox>>
        /\ store' = store \/ store' = [store EXCEPT !.status = StatusAt(ClientNow)]
    BY DEF WorkerTick, OnWorkerMessage, Hydrate, Tick, vars, serverVars, browserVars, external
  <1>2. store \in Stores
    BY DEF RoomInv, Shapes
  <1>3. StatusAt(ClientNow) \in {"waiting", "active", "ended"}
    BY DEF StatusAt
  <1>4. store' \in Stores /\ store'.bids = store.bids /\ store'.known = store.known /\ store'.price = store.price
    BY <1>1, <1>2, <1>3 DEF Stores
  <1>5. Shapes'
    BY <1>1, <1>4 DEF RoomInv, Shapes
  <1>6. News' = News /\ Snapshots' = Snapshots /\ Acc' = Acc
    BY <1>1 DEF News, Snapshots, Acc
  <1>7. SnapshotInv'
    BY <1>1, <1>6, SnapshotsKept
  <1>8. QED
    BY <1>1, <1>4, <1>5, <1>6, <1>7, QuietStep

\* A connection opens, or closes with what is on its way.
LEMMA ConnectionStep ==
    ASSUME RoomInv, Connect \/ Drop
    PROVE  RoomInv'
  <1>1. /\ UNCHANGED <<accepted, pipeline, updates, bids, base, told, store>>
        /\ session' = NoSession \/ session' = [NoSession EXCEPT !.phase = "check"]
        /\ UNCHANGED <<sent, inbox>> \/ (sent' = {} /\ inbox' = <<>>)
    BY DEF Connect, Drop, serverVars, browserVars
  <1>2. /\ session' \in Sessions /\ session'.best = StartPrice /\ session'.leading = <<>>
        /\ session'.recent = <<>> /\ session'.phase \in {"none", "check"}
    <2>1. <<>> \in Seq(BidRec) /\ StartPrice \in Nat
      BY AmountsType
    <2>2. NoSession \in Sessions
      BY <2>1 DEF NoSession, Sessions, Phases
    <2>3. /\ NoSession.best = StartPrice /\ NoSession.leading = <<>> /\ NoSession.recent = <<>>
          /\ NoSession.phase = "none"
      BY DEF NoSession
    <2>4. [NoSession EXCEPT !.phase = "check"] \in Sessions
      BY <2>2 DEF Sessions, Phases
    <2>5. CASE session' = NoSession
      BY <2>2, <2>3, <2>5
    <2>6. CASE session' = [NoSession EXCEPT !.phase = "check"]
      BY <2>2, <2>3, <2>4, <2>6 DEF Sessions
    <2>7. QED
      BY <1>1, <2>5, <2>6
  <1>3. Shapes'
    <2>1. inbox' \in Seq(UpdateRec \cup InitRec) /\ sent' \subseteq BidRec
      <3>1. inbox \in Seq(UpdateRec \cup InitRec) /\ sent \subseteq BidRec
        BY DEF RoomInv, Shapes
      <3>2. <<>> \in Seq(UpdateRec \cup InitRec)
        OBVIOUS
      <3>3. QED
        BY <1>1, <3>1, <3>2
    <2>2. QED
      BY <1>1, <1>2, <2>1 DEF RoomInv, Shapes
  <1>4. Ran(<<>>) = {}
    BY DEF Ran
  <1>5. News' \subseteq News /\ Snapshots' \subseteq Snapshots /\ Acc' = Acc /\ sent' \subseteq sent
    BY <1>1, <1>4 DEF News, Snapshots, Acc
  <1>6. SnapshotInv'
    BY <1>2, <1>4, <1>5 DEF RoomInv, SnapshotInv
  <1>7. QED
    BY <1>1, <1>3, <1>5, <1>6, QuietStep

\* CheckInitialized and JoinRoom: the price is noted when the room is joined.
LEMMA JoinStep ==
    ASSUME RoomInv, CheckInitialized \/ JoinRoom
    PROVE  RoomInv'
  <1>1. UNCHANGED <<accepted, pipeline, updates, bids, base, told, store, sent, inbox>>
    BY DEF CheckInitialized, JoinRoom, sessionOnly, serverVars, browserVars
  <1>2. session \in Sessions /\ accepted \in Seq(BidRec)
    BY DEF RoomInv, Shapes
  <1>3. BestAccepted = StartPrice \/ \E a \in Acc : a.amount = BestAccepted
    <2>1. CASE accepted = <<>>
      BY <2>1 DEF BestAccepted
    <2>2. CASE accepted # <<>>
      <3>1. Len(accepted) \in 1..Len(accepted)
        BY <1>2, <2>2
      <3>2. accepted[Len(accepted)] \in Acc
        BY <3>1 DEF Acc, Ran
      <3>3. QED
        BY <2>2, <3>2 DEF BestAccepted
    <2>3. QED
      BY <2>1, <2>2
  <1>4. Acc \subseteq BidRec
    BY <1>2, RanType DEF Acc
  <1>5. BestAccepted \in Nat
    BY <1>3, <1>4, AmountsType DEF BidRec
  <1>6. /\ session' \in Sessions /\ session'.leading = session.leading /\ session'.recent = session.recent
        /\ session'.phase \notin {"leading", "recent"}
        /\ session'.best = session.best \/ session'.best = BestAccepted
    <2>1. CASE CheckInitialized
      <3>1. \/ session' = [session EXCEPT !.phase = "checked"]
            \/ session' = [session EXCEPT !.phase = "waiting"]
        BY <2>1 DEF CheckInitialized
      <3>2. QED
        BY <1>2, <3>1 DEF Sessions, Phases
    <2>2. CASE JoinRoom
      <3>1. session' = [session EXCEPT !.phase = "joined", !.completed = (now >= End), !.best = BestAccepted]
        BY <2>2 DEF JoinRoom
      <3>2. (now >= End) \in BOOLEAN
        OBVIOUS
      <3>3. QED
        BY <1>2, <1>5, <3>1, <3>2 DEF Sessions, Phases
    <2>3. QED
      BY <2>1, <2>2
  <1>7. Shapes'
    BY <1>1, <1>6 DEF RoomInv, Shapes
  <1>8. News' = News /\ Snapshots' = Snapshots /\ Acc' = Acc
    BY <1>1 DEF News, Snapshots, Acc
  <1>9. SnapshotInv'
    BY <1>3, <1>6, <1>8 DEF RoomInv, SnapshotInv
  <1>10. QED
    BY <1>1, <1>7, <1>8, <1>9, QuietStep

\* A snapshot read: accepted bids only, the newest of them included.
LEMMA NewestRead ==
    ASSUME NEW seq \in Seq(BidRec)
    PROVE  /\ ReadNewest(seq) \in Seq(BidRec) /\ Ran(ReadNewest(seq)) \subseteq Ran(seq)
           /\ seq # <<>> => seq[Len(seq)] \in Ran(ReadNewest(seq))
  <1>1. PICK lo : lo = IF Len(seq) > Window THEN Len(seq) - Window + 1 ELSE 1
    OBVIOUS
  <1>2. PICK r : r = SubSeq(seq, lo, Len(seq))
    OBVIOUS
  <1>3. ReadNewest(seq) = r
    BY <1>1, <1>2 DEF ReadNewest
  <1>4. Len(seq) \in Nat /\ lo \in Int /\ lo >= 1 /\ (Len(seq) >= 1 => lo <= Len(seq))
    BY <1>1, RoomAssumption
  <1>5. \A i \in lo..Len(seq) : i \in 1..Len(seq)
    BY <1>4
  <1>6. \A i \in lo..Len(seq) : seq[i] \in BidRec
    BY <1>5
  <1>7. /\ r \in Seq(BidRec) /\ Len(r) = (IF lo <= Len(seq) THEN Len(seq) - lo + 1 ELSE 0)
        /\ \A i \in 1..(Len(seq) - lo + 1) : r[i] = seq[lo + i - 1]
    BY <1>2, <1>4, <1>6, SubSeqProperties
  <1>8. Ran(r) \subseteq Ran(seq)
    <2> SUFFICES ASSUME NEW i \in 1..Len(r) PROVE r[i] \in Ran(seq)
      BY DEF Ran
    <2>1. lo <= Len(seq) /\ i \in 1..(Len(seq) - lo + 1) /\ lo + i - 1 \in 1..Len(seq)
      BY <1>4, <1>7
    <2>2. r[i] = seq[lo + i - 1]
      BY <1>7, <2>1
    <2>3. QED
      BY <2>1, <2>2 DEF Ran
  <1>9. ASSUME seq # <<>> PROVE seq[Len(seq)] \in Ran(r)
    <2>1. Len(seq) >= 1
      BY <1>9
    <2>2. Len(r) = Len(seq) - lo + 1 /\ Len(r) \in 1..Len(r) /\ Len(r) \in 1..(Len(seq) - lo + 1)
      BY <1>4, <1>7, <2>1
    <2>3. lo + Len(r) - 1 = Len(seq)
      BY <1>4, <2>2
    <2>4. r[Len(r)] = seq[Len(seq)]
      BY <1>7, <2>2, <2>3
    <2>5. QED
      BY <2>2, <2>4 DEF Ran
  <1>10. QED
    BY <1>3, <1>7, <1>8, <1>9

\* The last accepted bid is at least as good as any price noted before.
LEMMA NewestCovers ==
    ASSUME RoomInv
    PROVE  Covers(ReadNewest(accepted), session.best)
  <1>1. accepted \in Seq(BidRec) /\ LedgerInv
    BY DEF RoomInv, Shapes
  <1>2. CASE session.best = StartPrice
    BY <1>2 DEF Covers
  <1>3. CASE session.best # StartPrice
    <2>1. PICK i \in 1..Len(accepted) : accepted[i].amount = session.best
      BY <1>3 DEF RoomInv, SnapshotInv, Acc, Ran
    <2>2. Len(accepted) \in Nat /\ Len(accepted) \in 1..Len(accepted) /\ i <= Len(accepted) /\ accepted # <<>>
      BY <1>1, <2>1
    <2>3. RanksNoWorse(accepted[Len(accepted)].amount, session.best)
      BY <1>1, <2>1, <2>2 DEF LedgerInv
    <2>4. accepted[Len(accepted)] \in Ran(ReadNewest(accepted))
      BY <1>1, <2>2, NewestRead
    <2>5. QED
      BY <2>3, <2>4 DEF Covers
  <1>4. QED
    BY <1>2, <1>3

\* The two reads of the snapshot, which may fail.
LEMMA ReadStep ==
    ASSUME RoomInv, ReadLeadingBids \/ ReadRecentEvents
    PROVE  RoomInv'
  <1>1. UNCHANGED <<accepted, pipeline, updates, bids, base, told, store, sent, inbox>>
    BY DEF ReadLeadingBids, ReadRecentEvents, sessionOnly, serverVars, browserVars
  <1>2. session \in Sessions /\ accepted \in Seq(BidRec) /\ SnapshotInv
    BY DEF RoomInv, Shapes
  <1>3. PICK new : new = ReadNewest(accepted)
    OBVIOUS
  <1>4. new \in Seq(BidRec) /\ Ran(new) \subseteq Acc /\ Covers(new, session.best)
    BY <1>2, <1>3, NewestRead, NewestCovers DEF Acc
  <1>5. /\ session' \in Sessions /\ session'.best = session.best
        /\ session'.leading \in {session.leading, new} /\ session'.recent \in {session.recent, new}
        /\ session'.phase \in {"leading", "recent"} => Covers(session'.leading, session.best)
    <2>1. CASE ReadLeadingBids
      <3>1. \/ session' = [session EXCEPT !.phase = "leading", !.leading = new]
            \/ session' = [session EXCEPT !.phase = "serving"]
        BY <1>3, <2>1 DEF ReadLeadingBids
      <3>2. CASE session' = [session EXCEPT !.phase = "leading", !.leading = new]
        BY <1>2, <1>4, <3>2 DEF Sessions, Phases
      <3>3. CASE session' = [session EXCEPT !.phase = "serving"]
        BY <1>2, <3>3 DEF Sessions, Phases
      <3>4. QED
        BY <3>1, <3>2, <3>3
    <2>2. CASE ReadRecentEvents
      <3>1. /\ session.phase = "leading"
            /\ \/ session' = [session EXCEPT !.phase = "recent", !.recent = new]
               \/ session' = [session EXCEPT !.phase = "recent"]
        BY <1>3, <2>2 DEF ReadRecentEvents
      <3>2. Covers(session.leading, session.best)
        BY <1>2, <3>1 DEF SnapshotInv
      <3>3. session' \in Sessions /\ session'.best = session.best /\ session'.leading = session.leading
            /\ session'.recent \in {session.recent, new}
        BY <1>2, <1>4, <3>1 DEF Sessions, Phases
      <3>4. QED
        BY <3>2, <3>3
    <2>3. QED
      BY <2>1, <2>2
  <1>6. Shapes'
    BY <1>1, <1>5 DEF RoomInv, Shapes
  <1>7. News' = News /\ Snapshots' = Snapshots /\ Acc' = Acc
    BY <1>1 DEF News, Snapshots, Acc
  <1>8. SnapshotInv'
    BY <1>2, <1>4, <1>5, <1>7 DEF SnapshotInv
  <1>9. QED
    BY <1>1, <1>6, <1>7, <1>8, QuietStep

\* auction_init is emitted.
LEMMA EmitInitStep ==
    ASSUME RoomInv, EmitInit
    PROVE  RoomInv'
  <1>1. UNCHANGED <<accepted, pipeline, updates, bids, base, told, store, sent>>
    BY DEF EmitInit, sessionOnly, serverVars, browserVars
  <1>2. session \in Sessions /\ inbox \in Seq(UpdateRec \cup InitRec) /\ SnapshotInv
    BY DEF RoomInv, Shapes
  <1>3. PICK m : m = [type |-> "init", leading |-> session.leading, recent |-> session.recent, best |-> session.best]
    OBVIOUS
  <1>4. /\ m \in InitRec /\ m.type = "init" /\ m.leading = session.leading
        /\ m.recent = session.recent /\ m.best = session.best
    BY <1>2, <1>3 DEF Sessions, InitRec
  <1>5. inbox' = Append(inbox, m) /\ session.phase = "recent"
    BY <1>3 DEF EmitInit
  <1>6. inbox' \in Seq(UpdateRec \cup InitRec) /\ Ran(inbox)' = Ran(inbox) \cup {m}
    BY <1>2, <1>4, <1>5, RanAppend
  <1>7. /\ session' \in Sessions /\ session'.best = StartPrice /\ session'.leading = <<>>
        /\ session'.recent = <<>> /\ session'.phase = "serving"
    <2>1. session' = [NoSession EXCEPT !.phase = "serving", !.completed = session.completed]
      BY DEF EmitInit
    <2>2. session.completed \in BOOLEAN
      BY <1>2 DEF Sessions
    <2>3. <<>> \in Seq(BidRec) /\ StartPrice \in Nat
      BY AmountsType
    <2>4. NoSession \in Sessions
      BY <2>3 DEF NoSession, Sessions, Phases
    <2>5. NoSession.best = StartPrice /\ NoSession.leading = <<>> /\ NoSession.recent = <<>>
      BY DEF NoSession
    <2>6. QED
      BY <2>1, <2>2, <2>4, <2>5 DEF Sessions, Phases
  <1>8. Shapes'
    BY <1>1, <1>6, <1>7 DEF RoomInv, Shapes
  <1>9. News' = News /\ Snapshots' = Snapshots \cup {m} /\ Acc' = Acc
    BY <1>1, <1>4, <1>6 DEF News, Snapshots, Acc
  <1>10. Ran(<<>>) = {}
    BY DEF Ran
  <1>11. /\ Ran(m.leading) \cup Ran(m.recent) \subseteq Acc /\ Covers(m.leading, m.best)
         /\ \A x \in Snapshots : Ran(x.leading) \cup Ran(x.recent) \subseteq Acc /\ Covers(x.leading, x.best)
    BY <1>2, <1>4, <1>5 DEF SnapshotInv
  <1>12. SnapshotInv'
    BY <1>7, <1>9, <1>10, <1>11 DEF SnapshotInv
  <1>13. QED
    BY <1>1, <1>8, <1>9, <1>12, QuietStep

\* The fan-out: an update goes to the browser's inbox, or nowhere.
LEMMA FanOutStep ==
    ASSUME RoomInv, FanOut
    PROVE  RoomInv'
  <1>1. /\ UNCHANGED <<accepted, pipeline, bids, base, told, store, session, sent>>
        /\ updates # <<>> /\ updates' = Tail(updates)
        /\ inbox' = Append(inbox, Head(updates)) \/ inbox' = inbox
    BY DEF FanOut, browserVars
  <1>2. inbox \in Seq(UpdateRec \cup InitRec) /\ updates \in Seq(UpdateRec)
    BY DEF RoomInv, Shapes
  <1>3. PICK u : u = Head(updates)
    OBVIOUS
  <1>4. u \in UpdateRec /\ u \in Ran(updates) /\ updates' \in Seq(UpdateRec) /\ Ran(updates)' \subseteq Ran(updates)
    BY <1>1, <1>2, <1>3, RanTail
  <1>5. u.type = "update"
    BY <1>4 DEF UpdateRec
  <1>6. inbox' \in Seq(UpdateRec \cup InitRec) /\ Ran(inbox)' \subseteq Ran(inbox) \cup {u}
    <2>1. CASE inbox' = inbox
      BY <1>2, <2>1
    <2>2. CASE inbox' = Append(inbox, u)
      BY <1>2, <1>4, <2>2, RanAppend
    <2>3. QED
      BY <1>1, <1>3, <2>1, <2>2
  <1>7. Shapes'
    BY <1>1, <1>4, <1>6 DEF RoomInv, Shapes
  <1>8. News' \subseteq News /\ Snapshots' \subseteq Snapshots /\ Acc' = Acc
    BY <1>1, <1>4, <1>5, <1>6 DEF News, Snapshots, Acc
  <1>9. SnapshotInv'
    BY <1>1, <1>8, SnapshotsKept
  <1>10. QED
    BY <1>1, <1>7, <1>8, <1>9, QuietStep

\* Bids are bids wherever they are.
LEMMA BidTypes ==
    ASSUME RoomInv
    PROVE  /\ \A b \in sent \cup Queue \cup Acc : b \in BidRec
           /\ \A u \in News : u \in UpdateRec /\ u.bid \in BidRec
  <1>1. /\ pipeline \in Seq(BidRec) /\ accepted \in Seq(BidRec) /\ sent \subseteq BidRec
        /\ updates \in Seq(UpdateRec) /\ inbox \in Seq(UpdateRec \cup InitRec)
    BY DEF RoomInv, Shapes
  <1>2. Queue \subseteq BidRec /\ Acc \subseteq BidRec
    BY <1>1, RanType DEF Queue, Acc
  <1>3. Ran(updates) \subseteq UpdateRec /\ Ran(inbox) \subseteq UpdateRec \cup InitRec
    BY <1>1, RanType
  <1>4. \A u \in News : u \in UpdateRec
    BY <1>3 DEF News, InitRec
  <1>5. QED
    BY <1>1, <1>2, <1>4 DEF UpdateRec

\* place_bid: the message is forwarded to the queue or refused.
LEMMA PlaceBidStep ==
    ASSUME RoomInv, NEW bid \in sent, PlaceBid(bid)
    PROVE  RoomInv'
  <1>1. /\ UNCHANGED <<accepted, updates, session, inbox, store, bids, base, told>>
        /\ sent' = sent \ {bid}
        /\ pipeline' = Append(pipeline, bid) \/ pipeline' = pipeline
    BY DEF PlaceBid, browserVars
  <1>2. pipeline \in Seq(BidRec) /\ sent \subseteq BidRec /\ KeysInv /\ NewsInv /\ OwnInv
    BY DEF RoomInv, Shapes
  <1>3. News' = News /\ Snapshots' = Snapshots /\ Acc' = Acc /\ sent' \subseteq sent
    BY <1>1 DEF News, Snapshots, Acc
  <1>4. SnapshotInv'
    BY <1>1, <1>3, SnapshotsKept
  <1>5. CASE pipeline' = pipeline
    <2>1. Shapes'
      BY <1>1, <1>5 DEF RoomInv, Shapes
    <2>2. QED
      BY <1>1, <1>3, <1>4, <1>5, <2>1, QuietStep
  <1>6. CASE pipeline' = Append(pipeline, bid)
    <2>1. pipeline' \in Seq(BidRec) /\ Queue' = Queue \cup {bid}
      BY <1>2, <1>6, RanAppend DEF Queue
    <2>2. Shapes'
      BY <1>1, <2>1 DEF RoomInv, Shapes
    <2>3. EntriesInv' /\ PriceInv' /\ BackedInv' /\ DecidedIsNotPending'
      <3>1. bids' \in [Bidders -> Nat] /\ \A x \in Bidders : bids[x] <= bids'[x]
        BY <1>1 DEF RoomInv, Shapes
      <3>2. QED
        BY <1>1, <1>3, <3>1, StoreKept
    <2>4. \A b \in sent' : Key(b) # Key(bid)
      <3> TAKE b \in sent'
      <3>1. b \in sent /\ b # bid /\ b.bidder = "me" /\ bid.bidder = "me"
        BY <1>1, <1>2 DEF KeysInv
      <3>2. b.n # bid.n
        BY <1>2, <3>1 DEF KeysInv
      <3>3. QED
        BY <3>2 DEF Key
    <2>5. PosDistinct(pipeline')
      BY <1>2, <1>6, AppendDistinct DEF KeysInv, Queue
    <2>6. KeysInv'
      BY <1>1, <1>2, <1>3, <2>1, <2>4, <2>5 DEF KeysInv
    <2>7. NewsInv'
      BY <1>2, <1>3, <2>1 DEF NewsInv
    <2>8. OwnInv'
      BY <1>1, <1>2, <1>3, <2>1 DEF OwnInv
    <2>9. LedgerInv'
      BY <1>1 DEF RoomInv, LedgerInv
    <2>10. QED
      BY <1>4, <2>2, <2>3, <2>6, <2>7, <2>8, <2>9 DEF RoomInv
  <1>7. QED
    BY <1>1, <1>5, <1>6

\* A rival's bid has a new number.
LEMMA OtherBidStep ==
    ASSUME RoomInv, NEW amount \in Amounts, OtherBid(amount)
    PROVE  RoomInv'
  <1>1. PICK k : k = bids["other"] + 1
    OBVIOUS
  <1>2. PICK bid : bid = [bidder |-> "other", n |-> k, amount |-> amount]
    OBVIOUS
  <1>3. /\ UNCHANGED <<accepted, updates, session, inbox, sent, store, base, told>>
        /\ pipeline' = Append(pipeline, bid) /\ bids' = [bids EXCEPT !["other"] = k]
    BY <1>1, <1>2 DEF OtherBid, external, browserVars
  <1>4. /\ pipeline \in Seq(BidRec) /\ accepted \in Seq(BidRec) /\ sent \subseteq BidRec
        /\ bids \in [Bidders -> Nat] /\ KeysInv /\ NewsInv /\ OwnInv
    BY DEF RoomInv, Shapes
  <1>5. "other" \in Bidders /\ k \in Nat /\ bids["other"] \in Nat /\ ~ (k <= bids["other"])
    BY <1>1, <1>4 DEF Bidders
  <1>6. bid \in BidRec /\ bid.bidder = "other" /\ bid.n = k
    BY <1>2, <1>5 DEF BidRec
  <1>7. bids' \in [Bidders -> Nat] /\ \A x \in Bidders : bids[x] <= bids'[x]
    BY <1>1, <1>3, <1>4, <1>5
  <1>8. pipeline' \in Seq(BidRec) /\ Queue' = Queue \cup {bid}
    BY <1>3, <1>4, <1>6, RanAppend DEF Queue
  <1>9. News' = News /\ Snapshots' = Snapshots /\ Acc' = Acc
    BY <1>3 DEF News, Snapshots, Acc
  <1>10. Shapes'
    BY <1>3, <1>7, <1>8 DEF RoomInv, Shapes
  <1>11. EntriesInv' /\ PriceInv' /\ BackedInv' /\ DecidedIsNotPending'
    BY <1>3, <1>7, <1>9, StoreKept
  <1>12. SnapshotInv'
    BY <1>3, <1>9, SnapshotsKept
  <1>13. /\ \A b \in sent \cup Queue \cup Acc : b \in BidRec
         /\ \A u \in News : u.bid \in BidRec
    BY BidTypes
  <1>14. /\ \A b \in sent \cup Queue \cup Acc : b.n <= bids'[b.bidder] /\ Key(b) # Key(bid)
         /\ \A u \in News : u.bid.n <= bids'[u.bid.bidder] /\ Key(u.bid) # Key(bid)
    <2>1. ASSUME NEW b \in BidRec, b.n <= bids[b.bidder] PROVE b.n <= bids'[b.bidder] /\ Key(b) # Key(bid)
      <3>1. b.n \in Nat /\ b.bidder \in Bidders
        BY DEF BidRec
      <3>2. bids[b.bidder] \in Nat /\ bids'[b.bidder] \in Nat /\ bids[b.bidder] <= bids'[b.bidder]
        BY <1>4, <1>7, <3>1
      <3>3. b.n <= bids'[b.bidder]
        BY <2>1, <3>1, <3>2
      <3>4. b.bidder = "other" => b.n # k
        BY <1>5, <2>1
      <3>5. QED
        BY <1>6, <3>3, <3>4 DEF Key
    <2>2. QED
      BY <1>4, <1>13, <2>1 DEF KeysInv
  <1>15. PosDistinct(pipeline')
    <2>1. PosDistinct(pipeline) /\ \A b \in Ran(pipeline) : Key(b) # Key(bid)
      BY <1>4, <1>14 DEF KeysInv, Queue
    <2>2. QED
      BY <1>3, <1>4, <1>6, <2>1, AppendDistinct
  <1>16. KeysInv'
    <2>1. bid.n <= bids'[bid.bidder]
      BY <1>3, <1>4, <1>5, <1>6
    <2>2. bids'["me"] = bids["me"]
      BY <1>3, <1>4 DEF Bidders
    <2>3. QED
      BY <1>3, <1>4, <1>8, <1>9, <1>14, <1>15, <2>1, <2>2 DEF KeysInv
  <1>17. NewsInv'
    BY <1>3, <1>4, <1>8, <1>9, <1>14 DEF NewsInv
  <1>18. OwnInv'
    BY <1>3, <1>4, <1>6, <1>8, <1>9 DEF OwnInv, OwnOK
  <1>19. LedgerInv'
    BY <1>3 DEF RoomInv, LedgerInv
  <1>20. QED
    BY <1>10, <1>11, <1>12, <1>16, <1>17, <1>18, <1>19 DEF RoomInv

\* An accepted bid beats all before it.
LEMMA AcceptImproves ==
    ASSUME RoomInv, NEW bid \in BidRec, accepted' = Append(accepted, bid),
           is_better_bid(AuctionType, BestAccepted, bid.amount, Step)
    PROVE  LedgerInv'
  <1>1. accepted \in Seq(BidRec) /\ LedgerInv
    BY DEF RoomInv, Shapes
  <1>2. PICK n \in Nat : n = Len(accepted)
    BY <1>1
  <1>3. /\ \A i \in 1..n : accepted'[i] = accepted[i] /\ accepted[i].amount \in Nat
        /\ accepted'[n + 1] = bid /\ Len(accepted') = n + 1
    <2>1. \A i \in 1..n : accepted[i] \in BidRec
      BY <1>1, <1>2
    <2>2. \A i \in 1..n : accepted[i].amount \in Nat
      BY <2>1, AmountsType DEF BidRec
    <2>3. /\ \A i \in 1..Len(accepted) : Append(accepted, bid)[i] = accepted[i]
          /\ Append(accepted, bid)[Len(accepted) + 1] = bid /\ Len(Append(accepted, bid)) = Len(accepted) + 1
      BY <1>1
    <2>4. QED
      BY <1>2, <2>2, <2>3
  <1>4. bid.amount \in Nat /\ StartPrice \in Nat /\ Step \in Nat
    BY AmountsType, RoomAssumption DEF BidRec
  <1>5. BestAccepted \in Nat /\ (n = 0 => BestAccepted = StartPrice) /\ (n # 0 => BestAccepted = accepted[n].amount)
    <2>1. CASE n = 0
      <3>1. accepted = <<>>
        BY <1>1, <1>2, <2>1, EmptySeq
      <3>2. QED
        BY <1>4, <2>1, <3>1 DEF BestAccepted
    <2>2. CASE n # 0
      <3>1. accepted # <<>> /\ n \in 1..n
        BY <1>1, <1>2, <2>2
      <3>2. QED
        BY <1>2, <1>3, <2>2, <3>1 DEF BestAccepted
    <2>3. QED
      BY <2>1, <2>2
  <1>6. RanksNoWorse(bid.amount, BestAccepted)
    BY <1>4, <1>5 DEF is_better_bid, RanksNoWorse, RanksFirst
  <1>7. \A i \in 1..n : RanksNoWorse(bid.amount, accepted[i].amount)
    <2> TAKE i \in 1..n
    <2>1. n # 0 /\ n \in 1..n /\ i <= n
      BY <1>2
    <2>2. RanksNoWorse(accepted[n].amount, accepted[i].amount)
      BY <1>1, <1>2, <2>1 DEF LedgerInv
    <2>3. QED
      BY <1>3, <1>4, <1>5, <1>6, <2>1, <2>2, RanksOrder
  <1>8. RanksNoWorse(bid.amount, StartPrice)
    <2>1. CASE n = 0
      BY <1>5, <1>6, <2>1
    <2>2. CASE n # 0
      <3>1. n \in 1..n
        BY <1>2, <2>2
      <3>2. RanksNoWorse(accepted[n].amount, StartPrice)
        BY <1>1, <1>2, <3>1 DEF LedgerInv
      <3>3. QED
        BY <1>3, <1>4, <1>5, <1>6, <2>2, <3>1, <3>2, RanksOrder
    <2>3. QED
      BY <2>1, <2>2
  <1>9. RanksNoWorse(bid.amount, bid.amount)
    BY <1>4, RanksOrder
  <1>10. \A i \in 1..Len(accepted') : i \in 1..n \/ i = n + 1
    BY <1>3
  <1>11. \A i \in 1..Len(accepted') : RanksNoWorse(accepted'[i].amount, StartPrice)
    BY <1>1, <1>2, <1>3, <1>8, <1>10 DEF LedgerInv
  <1>12. ASSUME NEW i \in 1..Len(accepted'), NEW j \in 1..Len(accepted'), i <= j
         PROVE  RanksNoWorse(accepted'[j].amount, accepted'[i].amount)
    <2>1. CASE j = n + 1
      BY <1>3, <1>7, <1>9, <1>10, <2>1
    <2>2. CASE j \in 1..n
      <3>1. i \in 1..n
        BY <1>10, <1>12, <2>2
      <3>2. QED
        BY <1>1, <1>2, <1>3, <1>12, <2>2, <3>1 DEF LedgerInv
    <2>3. QED
      BY <1>10, <2>1, <2>2
  <1>13. QED
    BY <1>11, <1>12 DEF LedgerInv

\* The engine decides the bid at the head of the queue.
LEMMA DecideStep ==
    ASSUME RoomInv, Decide
    PROVE  RoomInv'
  <1>1. PICK bid : bid = Head(pipeline)
    OBVIOUS
  <1>2. PICK executed \in BOOLEAN : executed = is_better_bid(AuctionType, BestAccepted, bid.amount, Step)
    BY DEF is_better_bid
  <1>3. PICK u : u = [type |-> "update", bid |-> bid, executed |-> executed]
    OBVIOUS
  <1>4. /\ UNCHANGED <<session, inbox, sent, store, bids, base, told>>
        /\ pipeline # <<>> /\ pipeline' = Tail(pipeline)
        /\ accepted' = IF executed THEN Append(accepted, bid) ELSE accepted
        /\ updates' = Append(updates, u) \/ updates' = updates
    BY <1>1, <1>2, <1>3 DEF Decide, external, browserVars
  <1>5. /\ pipeline \in Seq(BidRec) /\ accepted \in Seq(BidRec) /\ updates \in Seq(UpdateRec)
        /\ KeysInv /\ NewsInv /\ OwnInv /\ LedgerInv
    BY DEF RoomInv, Shapes
  <1>6. /\ pipeline' \in Seq(BidRec) /\ bid \in BidRec /\ bid \in Queue /\ Queue' \subseteq Queue
        /\ PosDistinct(pipeline') /\ \A b \in Queue' : Key(b) # Key(bid)
    <2>1. pipeline' \in Seq(BidRec) /\ bid \in BidRec /\ bid \in Queue /\ Queue' \subseteq Queue
      BY <1>1, <1>4, <1>5, RanTail DEF Queue
    <2>2. PosDistinct(Tail(pipeline)) /\ \A b \in Ran(Tail(pipeline)) : Key(b) # Key(Head(pipeline))
      BY <1>4, <1>5, TailDistinct DEF KeysInv
    <2>3. QED
      BY <1>1, <1>4, <2>1, <2>2 DEF Queue
  <1>7. u \in UpdateRec /\ u.bid = bid /\ u.executed = executed
    BY <1>3, <1>6 DEF UpdateRec
  <1>8. accepted' \in Seq(BidRec) /\ Acc' = (IF executed THEN Acc \cup {bid} ELSE Acc)
    <2>1. CASE executed
      BY <1>4, <1>5, <1>6, <2>1, RanAppend DEF Acc
    <2>2. CASE ~executed
      BY <1>4, <1>5, <2>2 DEF Acc
    <2>3. QED
      BY <2>1, <2>2
  <1>9. updates' \in Seq(UpdateRec) /\ News' \subseteq News \cup {u} /\ Snapshots' = Snapshots
    <2>1. CASE updates' = updates
      BY <1>4, <1>5, <2>1 DEF News, Snapshots
    <2>2. CASE updates' = Append(updates, u)
      <3>1. updates' \in Seq(UpdateRec) /\ Ran(updates)' = Ran(updates) \cup {u}
        BY <1>5, <1>7, <2>2, RanAppend
      <3>2. QED
        BY <1>4, <3>1 DEF News, Snapshots
    <2>3. QED
      BY <1>4, <2>1, <2>2
  <1>10. Shapes'
    BY <1>4, <1>6, <1>8, <1>9 DEF RoomInv, Shapes
  <1>11. EntriesInv' /\ PriceInv' /\ BackedInv' /\ DecidedIsNotPending'
    <2>1. bids' \in [Bidders -> Nat] /\ \A x \in Bidders : bids[x] <= bids'[x]
      BY <1>4 DEF RoomInv, Shapes
    <2>2. Acc \subseteq Acc'
      BY <1>8
    <2>3. QED
      BY <1>4, <2>1, <2>2, StoreKept
  <1>12. SnapshotInv'
    BY <1>4, <1>8, <1>9, SnapshotsKept
  <1>13. LedgerInv'
    <2>1. CASE executed
      BY <1>2, <1>4, <1>6, <2>1, AcceptImproves
    <2>2. CASE ~executed
      BY <1>4, <1>5, <2>2 DEF LedgerInv
    <2>3. QED
      BY <2>1, <2>2
  <1>14. Acc' \subseteq Acc \cup {bid} /\ bid.n <= bids[bid.bidder] /\ \A b \in sent \cup Acc : Key(b) # Key(bid)
    BY <1>5, <1>6, <1>8 DEF KeysInv
  <1>15. KeysInv'
    <2>1. KeysDistinct(Acc')
      BY <1>5, <1>14 DEF KeysInv, KeysDistinct
    <2>2. \A b \in Queue' : \A c \in Acc' : Key(b) # Key(c)
      BY <1>5, <1>6, <1>14 DEF KeysInv
    <2>3. \A b \in sent : \A c \in Queue' \cup Acc' : Key(b) # Key(c)
      BY <1>5, <1>6, <1>14 DEF KeysInv
    <2>4. \A x \in News' : x.bid.n <= bids[x.bid.bidder]
      BY <1>5, <1>7, <1>9, <1>14 DEF KeysInv
    <2>5. \A b \in sent \cup Queue' \cup Acc' : b.n <= bids[b.bidder]
      BY <1>5, <1>6, <1>14 DEF KeysInv
    <2>6. /\ \A b \in sent : b.bidder = "me"
          /\ \A b, c \in sent : b.n = c.n => b = c
          /\ \A n \in told : n <= bids["me"]
      BY <1>5 DEF KeysInv
    <2>7. QED
      BY <1>4, <1>6, <2>1, <2>2, <2>3, <2>4, <2>5, <2>6 DEF KeysInv
  <1>16. NewsInv'
    <2> SUFFICES ASSUME NEW x \in News'
                 PROVE  /\ x.executed => x.bid \in Acc'
                        /\ ~x.executed => \A b \in sent' \cup Queue' \cup Acc' : Key(b) # Key(x.bid)
      BY DEF NewsInv
    <2>1. CASE x \in News
      <3>1. /\ x.executed => x.bid \in Acc
            /\ ~x.executed => \A b \in sent \cup Queue \cup Acc : Key(b) # Key(x.bid)
        BY <1>5, <2>1 DEF NewsInv
      <3>2. QED
        BY <1>4, <1>6, <1>8, <1>14, <3>1
    <2>2. CASE x = u
      <3>1. CASE executed
        BY <1>7, <1>8, <2>2, <3>1
      <3>2. CASE ~executed
        BY <1>4, <1>6, <1>7, <1>8, <1>14, <2>2, <3>2
      <3>3. QED
        BY <3>1, <3>2
    <2>3. QED
      BY <1>9, <2>1, <2>2
  <1>17. OwnInv'
    BY <1>4, <1>5, <1>6, <1>7, <1>9 DEF OwnInv
  <1>18. QED
    BY <1>10, <1>11, <1>12, <1>13, <1>15, <1>16, <1>17 DEF RoomInv

\* The price shown is at least as good as the start price.
LEMMA PriceBeatsStart ==
    ASSUME RoomInv, store.known
    PROVE  store.price \in Nat /\ store.price # 0 /\ RanksNoWorse(store.price, StartPrice)
  <1>1. IsLead(store.price, store.bids) /\ store \in Stores /\ store.bids \subseteq EntryRec
    BY DEF RoomInv, PriceInv, Shapes, Stores
  <1>2. CASE Valid(store.bids) = {}
    BY <1>1, <1>2, AmountsType, RanksOrder DEF IsLead
  <1>3. CASE Valid(store.bids) # {}
    <2>1. PICK b \in Valid(store.bids) : b.amount = store.price
      BY <1>1, <1>3 DEF IsLead
    <2>2. b \in store.bids /\ b.status # "rejected"
      BY <2>1 DEF Valid
    <2>3. RanksNoWorse(b.amount, StartPrice)
      BY <2>2 DEF RoomInv, EntriesInv, EntryOK
    <2>4. b.amount \in Nat /\ b.amount # 0
      BY <1>1, <2>2, RoomAssumption DEF EntryRec
    <2>5. QED
      BY <2>1, <2>3, <2>4
  <1>4. QED
    BY <1>2, <1>3

\* The numbers of the own bids of an amount: those shown as pending, and all.
PendNums(bs, a) == {b.id[2] : b \in {c \in bs : c.status = "pending" /\ c.amount = a}}
OwnNums(bs, a) == {b.id[2] : b \in {c \in bs : c.id[1] = "local" /\ c.amount = a}}
DecidedOK(bs, t) == \A a \in Amounts : Cardinality(PendNums(bs, a)) <= Cardinality(OwnNums(bs, a) \ t)

\* DecidedIsNotPending in terms of these sets.
LEMMA DecidedIsOK == DecidedIsNotPending <=> DecidedOK(store.bids, told)
  BY DEF DecidedIsNotPending, DecidedOK, Awaiting, Undecided, PendNums, OwnNums

\* There are finitely many of them.
LEMMA OwnNumsFinite ==
    ASSUME RoomInv, NEW a
    PROVE  /\ IsFiniteSet(PendNums(store.bids, a)) /\ IsFiniteSet(OwnNums(store.bids, a) \ told)
           /\ \A n \in PendNums(store.bids, a) \cup OwnNums(store.bids, a) : n \in Nat /\ n <= bids["me"]
  <1>1. store.bids \subseteq EntryRec /\ bids \in [Bidders -> Nat]
    BY DEF RoomInv, Shapes, Stores
  <1>2. bids["me"] \in Nat
    BY <1>1 DEF Bidders
  <1>3. \A b \in store.bids : b.id[1] = "local" \/ b.status = "pending" => b.id[2] \in Nat /\ b.id[2] <= bids["me"]
    BY <1>1 DEF RoomInv, EntriesInv, EntryOK, EntryRec
  <1>4. \A n \in PendNums(store.bids, a) \cup OwnNums(store.bids, a) : n \in Nat /\ n <= bids["me"]
    BY <1>3 DEF PendNums, OwnNums
  <1>5. QED
    BY <1>2, <1>4, FS_BoundedSetOfNaturals

\* A submission: the optimistic entry leads, and its number is new.
LEMMA SubmitStep ==
    ASSUME RoomInv, NEW amount \in Amounts, Submit(amount)
    PROVE  RoomInv'
  <1>1. PICK k : k = bids["me"] + 1
    OBVIOUS
  <1>2. PICK bid : bid = [bidder |-> "me", n |-> k, amount |-> amount]
    OBVIOUS
  <1>3. PICK e : e = [id |-> <<"local", k>>, bidder |-> "optimistic", amount |-> amount, status |-> "pending"]
    OBVIOUS
  <1>4. /\ UNCHANGED <<accepted, pipeline, updates, session, inbox, base, told>>
        /\ store' = AddOptimisticBid(store, bid) /\ sent' = sent \cup {bid} /\ bids' = [bids EXCEPT !["me"] = k]
        /\ store.known /\ RanksFirst(AuctionType, amount, NextValid)
    BY <1>1, <1>2 DEF Submit, CanBid, serverVars
  <1>5. /\ pipeline \in Seq(BidRec) /\ accepted \in Seq(BidRec) /\ sent \subseteq BidRec
        /\ bids \in [Bidders -> Nat] /\ store \in Stores /\ store.bids \subseteq EntryRec
        /\ KeysInv /\ NewsInv /\ OwnInv /\ EntriesInv
    BY DEF RoomInv, Shapes, Stores
  <1>6. "me" \in Bidders /\ k \in Nat /\ bids["me"] \in Nat /\ ~ (k <= bids["me"])
    BY <1>1, <1>5 DEF Bidders
  <1>7. bid \in BidRec /\ bid.bidder = "me" /\ bid.n = k /\ bid.amount = amount
    BY <1>2, <1>6 DEF BidRec
  <1>8. /\ e \in EntryRec /\ e.id = <<"local", k>> /\ e.id[1] = "local" /\ e.id[2] = k
        /\ e.amount = amount /\ e.status = "pending"
    BY <1>3, <1>6 DEF EntryRec, Statuses
  <1>9. bids' \in [Bidders -> Nat] /\ bids'["me"] = k /\ \A x \in Bidders : bids[x] <= bids'[x]
    BY <1>1, <1>4, <1>5, <1>6
  <1>10. News' = News /\ Snapshots' = Snapshots /\ Acc' = Acc /\ Queue' = Queue
    BY <1>4 DEF News, Snapshots, Acc, Queue
  <1>11. /\ store.price \in Nat /\ store.price # 0 /\ RanksNoWorse(store.price, StartPrice)
         /\ amount \in Nat
    BY <1>4, PriceBeatsStart, AmountsType
  <1>12. RanksNoWorse(amount, store.price)
    BY <1>4, <1>11, RoomAssumption DEF NextValid, RanksNoWorse, RanksFirst, AuctionTypes
  <1>13. /\ store' \in Stores /\ store'.bids = store.bids \cup {e} /\ store'.known
         /\ store'.price = amount
    <2>1. PICK p : p = IF amount # store.price /\ RanksFirst(AuctionType, amount, store.price) THEN amount ELSE store.price
      OBVIOUS
    <2>2. p = amount
      BY <1>12, <2>1 DEF RanksNoWorse
    <2>3. store' = [store EXCEPT !.bids = store.bids \cup {e}, !.price = amount]
      BY <1>3, <1>4, <1>5, <1>7, <2>1, <2>2 DEF AddOptimisticBid, Stores
    <2>4. store.bids \cup {e} \in SUBSET EntryRec
      BY <1>5, <1>8
    <2>5. store' \in Stores
      BY <1>5, <1>11, <2>3, <2>4 DEF Stores
    <2>6. store'.bids = store.bids \cup {e} /\ store'.price = amount /\ store'.known = store.known
      BY <1>5, <2>3 DEF Stores
    <2>7. QED
      BY <1>4, <2>5, <2>6
  <1>14. Shapes'
    BY <1>4, <1>5, <1>7, <1>9, <1>13 DEF RoomInv, Shapes
  <1>15. LedgerInv' /\ SnapshotInv'
    <2>1. LedgerInv'
      BY <1>4 DEF RoomInv, LedgerInv
    <2>2. SnapshotInv'
      BY <1>4, <1>10, SnapshotsKept
    <2>3. QED
      BY <2>1, <2>2
  <1>16. /\ \A b \in sent \cup Queue \cup Acc : b.n <= bids'[b.bidder] /\ Key(b) # Key(bid)
                                                /\ (b.bidder = "me" => b.n # k)
         /\ \A u \in News : u.bid.n <= bids'[u.bid.bidder] /\ Key(u.bid) # Key(bid)
                            /\ (u.bid.bidder = "me" => u.bid.n # k)
    <2>1. ASSUME NEW b \in BidRec, b.n <= bids[b.bidder]
          PROVE  b.n <= bids'[b.bidder] /\ Key(b) # Key(bid) /\ (b.bidder = "me" => b.n # k)
      <3>1. b.n \in Nat /\ b.bidder \in Bidders
        BY DEF BidRec
      <3>2. bids[b.bidder] \in Nat /\ bids'[b.bidder] \in Nat /\ bids[b.bidder] <= bids'[b.bidder]
        BY <1>5, <1>9, <3>1
      <3>3. b.n <= bids'[b.bidder]
        BY <2>1, <3>1, <3>2
      <3>4. b.bidder = "me" => b.n # k
        BY <1>6, <2>1
      <3>5. QED
        BY <1>7, <3>3, <3>4 DEF Key
    <2>2. QED
      BY <1>5, <2>1, BidTypes DEF KeysInv
  <1>17. KeysInv'
    <2>1. \A b \in sent : b.n # k
      BY <1>5, <1>16 DEF KeysInv
    <2>2. /\ \A b \in sent' : b.bidder = "me"
          /\ \A b, c \in sent' : b.n = c.n => b = c
      BY <1>4, <1>5, <1>7, <2>1 DEF KeysInv
    <2>3. \A b \in sent' : \A c \in Queue \cup Acc : Key(b) # Key(c)
      BY <1>4, <1>5, <1>16 DEF KeysInv
    <2>4. \A b \in sent' \cup Queue \cup Acc : b.n <= bids'[b.bidder]
      BY <1>4, <1>6, <1>7, <1>9, <1>16
    <2>5. \A n \in told : n <= bids'["me"]
      <3>1. told \subseteq Nat
        BY DEF RoomInv, Shapes
      <3>2. \A n \in told : n \in Nat /\ n <= bids["me"]
        BY <1>5, <3>1 DEF KeysInv
      <3>3. QED
        BY <1>1, <1>6, <1>9, <3>2
    <2>6. QED
      BY <1>4, <1>5, <1>10, <1>16, <2>2, <2>3, <2>4, <2>5 DEF KeysInv
  <1>18. NewsInv'
    BY <1>4, <1>5, <1>10, <1>16 DEF NewsInv
  <1>19. \A c \in store.bids : c.id # <<"local", k>> /\ c.id # <<"me", k>>
    <2> TAKE c \in store.bids
    <2>1. c.id[2] \in Nat /\ c.id[2] <= bids[IF c.id[1] = "local" THEN "me" ELSE c.id[1]]
      BY <1>5 DEF EntriesInv, EntryOK, EntryRec
    <2>2. QED
      BY <1>6, <2>1
  <1>20. EntriesInv'
    <2>1. IdsUnique(store.bids \cup {e})
      BY <1>5, <1>8, <1>19 DEF EntriesInv, IdsUnique
    <2>2. Bounded(store.bids \cup {e})
      <3>1. PICK top \in Amounts \cup {StartPrice} : \A b \in store.bids : b.amount <= top
        BY <1>5 DEF EntriesInv, Bounded
      <3>2. top \in Nat /\ \A b \in store.bids : b.amount \in Nat
        BY <1>5, AmountsType DEF EntryRec
      <3>3. CASE amount <= top
        BY <1>8, <3>1, <3>3 DEF Bounded
      <3>4. CASE ~ (amount <= top)
        <4>1. \A b \in store.bids \cup {e} : b.amount <= amount
          BY <1>8, <1>11, <3>1, <3>2, <3>4
        <4>2. QED
          BY <4>1 DEF Bounded
      <3>5. QED
        BY <3>3, <3>4
    <2>3. EntryOK(e, Acc, bids')
      <3>1. RanksNoWorse(amount, StartPrice)
        BY <1>11, <1>12, AmountsType, RanksOrder
      <3>2. QED
        BY <1>6, <1>8, <1>9, <3>1 DEF EntryOK
    <2>4. ASSUME NEW b \in store.bids PROVE EntryOK(b, Acc, bids')
      <3>1. EntryOK(b, Acc, bids)
        BY <1>5 DEF EntriesInv
      <3>2. b.id[2] \in Nat /\ b.id[1] \in {"local"} \cup Bidders
        BY <1>5 DEF EntryRec
      <3>3. PICK x : x = IF b.id[1] = "local" THEN "me" ELSE b.id[1]
        OBVIOUS
      <3>4. x \in Bidders
        BY <3>2, <3>3 DEF Bidders
      <3>5. b.id[2] <= bids[x]
        BY <3>1, <3>3 DEF EntryOK
      <3>6. b.id[2] <= bids'[x]
        BY <1>5, <1>9, <3>2, <3>4, <3>5
      <3>7. QED
        BY <3>1, <3>3, <3>6 DEF EntryOK
    <2>5. QED
      BY <1>10, <1>13, <2>1, <2>2, <2>3, <2>4 DEF EntriesInv
  <1>21. PriceInv'
    <2>1. Valid(store.bids \cup {e}) = Valid(store.bids) \cup {e}
      BY <1>8 DEF Valid
    <2>2. \A b \in Valid(store.bids) : RanksNoWorse(amount, b.amount)
      <3> TAKE b \in Valid(store.bids)
      <3>1. RanksNoWorse(store.price, b.amount)
        BY <1>4 DEF RoomInv, PriceInv, IsLead
      <3>2. b.amount \in Nat
        BY <1>5, AmountsType DEF Valid, EntryRec
      <3>3. QED
        BY <1>11, <1>12, <3>1, <3>2, RanksOrder
    <2>3. RanksNoWorse(amount, amount)
      BY <1>11, RanksOrder
    <2>4. IsLead(amount, store.bids \cup {e})
      BY <1>8, <2>1, <2>2, <2>3 DEF IsLead
    <2>5. QED
      BY <1>13, <2>4 DEF PriceInv
  <1>22. BackedInv'
    BY <1>4, <1>13 DEF RoomInv, BackedInv, Backed
  <1>23. OwnInv'
    <2>1. /\ \A b \in sent' \cup Queue' : OwnOK(b, store'.bids)
          /\ \A u \in News' : OwnOK(u.bid, store'.bids)
      BY <1>4, <1>5, <1>7, <1>8, <1>10, <1>13, <1>16, <1>19 DEF OwnInv, OwnOK
    <2>2. \A b, c \in store'.bids : b.id[1] = "me" /\ c.id = <<"local", b.id[2]>> => b.id[2] \in told
      <3> SUFFICES ASSUME NEW b \in store'.bids, NEW c \in store'.bids, b.id[1] = "me", c.id = <<"local", b.id[2]>>
                   PROVE  b.id[2] \in told
        OBVIOUS
      <3>1. b \in store.bids
        BY <1>8, <1>13
      <3>2. c # e
        <4>1. b.id \in ({"local"} \cup Bidders) \X Nat
          BY <1>5, <3>1 DEF EntryRec
        <4>2. b.id[2] # k
          BY <1>19, <3>1, <4>1
        <4>3. QED
          BY <1>8, <4>2
      <3>3. QED
        BY <1>5, <1>13, <3>1, <3>2 DEF OwnInv
    <2>3. QED
      BY <1>4, <2>1, <2>2 DEF OwnInv
  <1>24. DecidedOK(store'.bids, told)
    <2> SUFFICES ASSUME NEW a \in Amounts
                 PROVE  Cardinality(PendNums(store'.bids, a)) <= Cardinality(OwnNums(store'.bids, a) \ told)
      BY DEF DecidedOK
    <2>1. PICK P, U : P = PendNums(store.bids, a) /\ U = OwnNums(store.bids, a) \ told
      OBVIOUS
    <2>2. Cardinality(P) <= Cardinality(U)
      BY <2>1, DecidedIsOK DEF RoomInv, DecidedOK
    <2>3. IsFiniteSet(P) /\ IsFiniteSet(U) /\ k \notin P /\ k \notin U
      BY <1>6, <2>1, OwnNumsFinite
    <2>4. k \notin told
      BY <1>5, <1>6 DEF KeysInv
    <2>5. CASE a = amount
      <3>1. PendNums(store'.bids, a) = P \cup {k} /\ OwnNums(store'.bids, a) \ told = U \cup {k}
        BY <1>8, <1>13, <2>1, <2>4, <2>5 DEF PendNums, OwnNums
      <3>2. Cardinality(P \cup {k}) = Cardinality(P) + 1 /\ Cardinality(U \cup {k}) = Cardinality(U) + 1
        BY <2>3, FS_AddElement
      <3>3. Cardinality(P) \in Nat /\ Cardinality(U) \in Nat
        BY <2>3, FS_CardinalityType
      <3>4. Cardinality(P \cup {k}) <= Cardinality(U \cup {k})
        BY <2>2, <3>2, <3>3
      <3>5. QED
        BY <3>1, <3>4
    <2>6. CASE a # amount
      <3>1. PendNums(store'.bids, a) = P /\ OwnNums(store'.bids, a) \ told = U
        BY <1>8, <1>13, <2>1, <2>6 DEF PendNums, OwnNums
      <3>2. QED
        BY <2>2, <3>1
    <2>7. QED
      BY <2>5, <2>6
  <1>25. DecidedIsNotPending'
    BY <1>4, <1>24 DEF DecidedIsNotPending, DecidedOK, Awaiting, Undecided, PendNums, OwnNums
  <1>26. QED
    BY <1>14, <1>15, <1>17, <1>18, <1>20, <1>21, <1>22, <1>23, <1>25 DEF RoomInv

\* What the decision about a bid does to the entries: the invariants that speak of
\* the entries only.
LEMMA ReconcileKeepsEntries ==
    ASSUME RoomInv, NEW u \in News
    PROVE  /\ Reconciled(store, u.bid, u.executed) \subseteq EntryRec
           /\ IdsUnique(Reconciled(store, u.bid, u.executed)) /\ Bounded(Reconciled(store, u.bid, u.executed))
           /\ \A b \in Reconciled(store, u.bid, u.executed) : EntryOK(b, Acc, bids)
           /\ Backed(base, store.bids) => Backed(base, Reconciled(store, u.bid, u.executed))
  <1>1. PICK bs : bs = store.bids
    OBVIOUS
  <1>2. PICK bid : bid = u.bid
    OBVIOUS
  <1>3. PICK x \in BOOLEAN : x = u.executed
    BY BidTypes DEF UpdateRec
  <1>4. PICK after : after = Reconciled(store, u.bid, u.executed)
    OBVIOUS
  <1>5. /\ store \in Stores /\ bs \subseteq EntryRec /\ bids \in [Bidders -> Nat] /\ bids["me"] \in Nat
        /\ KeysInv /\ NewsInv /\ EntriesInv /\ LedgerInv /\ bid \in BidRec
    BY <1>1, <1>2, BidTypes DEF RoomInv, Shapes, Stores, Bidders
  <1>6. IdsUnique(bs) /\ Bounded(bs) /\ \A b \in bs : EntryOK(b, Acc, bids)
    BY <1>1, <1>5 DEF EntriesInv
  <1>7. \/ NoMatch(bs, bid) /\ after = bs \cup {EntryOf(Key(bid), bid, x)}
        \/ \E m \in bs : /\ ByKey(bs, bid, m) \/ ByAmount(bs, bid, m)
                         /\ after = (bs \ {m}) \cup {EntryOf(m.id, bid, x)}
    <2>1. \A b \in bs : b.status = "pending" => b.id[1] = "local" /\ b.id[2] <= bids["me"]
      BY <1>6 DEF EntryOK
    <2>2. QED
      BY <1>1, <1>2, <1>3, <1>4, <1>5, <1>6, <2>1, ReconciledCases
  <1>8. bid \in Acc \/ ~x
    BY <1>2, <1>3, <1>5 DEF NewsInv
  <1>9. bid.n \in Nat /\ bid.bidder \in Bidders /\ bid.amount \in Amounts /\ bid.n <= bids[bid.bidder]
    BY <1>2, <1>5 DEF KeysInv, BidRec
  <1>10. x => RanksNoWorse(bid.amount, StartPrice)
    BY <1>5, <1>8 DEF LedgerInv, Acc, Ran
  <1>11. Key(bid) \in ({"local"} \cup Bidders) \X Nat /\ Key(bid)[1] # "local"
         /\ Key(bid)[1] = bid.bidder /\ Key(bid)[2] = bid.n
    BY <1>9 DEF Key, Bidders
  <1>12. ASSUME NEW id \in ({"local"} \cup Bidders) \X Nat
         PROVE  LET e == EntryOf(id, bid, x)
                IN  /\ e \in EntryRec /\ e.id = id /\ e.amount = bid.amount /\ e.status # "pending"
                    /\ e.status = IF x THEN "confirmed" ELSE "rejected"
    BY <1>5, <1>9 DEF EntryOf, EntryRec, Statuses
  <1>13. EntryOK(EntryOf(Key(bid), bid, x), Acc, bids)
    <2>1. PICK e : e = EntryOf(Key(bid), bid, x)
      OBVIOUS
    <2>2. e.id = Key(bid) /\ e.amount = bid.amount /\ e.status = IF x THEN "confirmed" ELSE "rejected"
      BY <1>11, <1>12, <2>1
    <2>3. e.id[2] <= bids[IF e.id[1] = "local" THEN "me" ELSE e.id[1]]
      BY <1>9, <1>11, <2>2
    <2>4. e.status = "confirmed" => x
      BY <2>2
    <2>5. e.status # "rejected" => RanksNoWorse(e.amount, StartPrice)
      BY <1>10, <2>2
    <2>6. e.status # "pending"
      BY <2>2
    <2>7. e.status = "confirmed" => \E a \in Acc : Key(a) = e.id /\ a.amount = e.amount
      BY <1>8, <2>2, <2>4
    <2>8. EntryOK(e, Acc, bids)
      BY <2>3, <2>5, <2>6, <2>7 DEF EntryOK
    <2>9. QED
      BY <2>1, <2>8
  <1>14. ASSUME NEW S, S \subseteq EntryRec, Bounded(S), NEW e \in EntryRec PROVE Bounded(S \cup {e})
    <2>1. PICK top \in Amounts \cup {StartPrice} : \A b \in S : b.amount <= top
      BY <1>14 DEF Bounded
    <2>2. top \in Nat /\ e.amount \in Amounts /\ e.amount \in Nat /\ \A b \in S : b.amount \in Nat
      BY <1>14, AmountsType DEF EntryRec
    <2>3. CASE e.amount <= top
      BY <2>1, <2>3 DEF Bounded
    <2>4. CASE ~ (e.amount <= top)
      <3>1. \A b \in S \cup {e} : b.amount <= e.amount
        BY <2>1, <2>2, <2>4
      <3>2. QED
        BY <2>2, <3>1 DEF Bounded
    <2>5. QED
      BY <2>3, <2>4
  <1>15. CASE NoMatch(bs, bid) /\ after = bs \cup {EntryOf(Key(bid), bid, x)}
    <2>1. PICK e : e = EntryOf(Key(bid), bid, x)
      OBVIOUS
    <2>2. e \in EntryRec /\ e.id = Key(bid) /\ EntryOK(e, Acc, bids) /\ after = bs \cup {e}
      BY <1>11, <1>12, <1>13, <1>15, <2>1
    <2>3. after \subseteq EntryRec
      BY <1>5, <2>2
    <2>4. IdsUnique(after)
      BY <1>6, <1>15, <2>2 DEF IdsUnique, NoMatch
    <2>5. Bounded(after)
      BY <1>5, <1>6, <1>14, <2>2
    <2>6. Backed(base, bs) => Backed(base, after)
      BY <2>2 DEF Backed
    <2>7. QED
      BY <1>1, <1>4, <1>6, <2>2, <2>3, <2>4, <2>5, <2>6
  <1>16. ASSUME NEW m \in bs, ByKey(bs, bid, m) \/ ByAmount(bs, bid, m),
                after = (bs \ {m}) \cup {EntryOf(m.id, bid, x)}
         PROVE  /\ after \subseteq EntryRec /\ IdsUnique(after) /\ Bounded(after)
                /\ \A b \in after : EntryOK(b, Acc, bids)
                /\ Backed(base, bs) => Backed(base, after)
    <2>1. PICK e : e = EntryOf(m.id, bid, x)
      OBVIOUS
    <2>2. m.id \in ({"local"} \cup Bidders) \X Nat /\ EntryOK(m, Acc, bids)
      BY <1>5, <1>6 DEF EntryRec
    <2>3. /\ e \in EntryRec /\ e.id = m.id /\ after = (bs \ {m}) \cup {e} /\ e.amount = bid.amount
          /\ e.status = IF x THEN "confirmed" ELSE "rejected"
      BY <1>12, <1>16, <2>1, <2>2
    <2>4. EntryOK(e, Acc, bids)
      <3>1. CASE ByKey(bs, bid, m)
        BY <1>13, <2>1, <3>1 DEF ByKey
      <3>2. CASE ByAmount(bs, bid, m)
        <4>1. m.id[1] = "local" /\ m.id[2] <= bids["me"]
          BY <2>2, <3>2 DEF ByAmount, EntryOK
        <4>2. e.status # "rejected" => RanksNoWorse(e.amount, StartPrice)
          BY <1>10, <2>3
        <4>3. e.status # "pending" /\ e.id[1] = "local" /\ e.id[2] <= bids["me"]
          BY <2>3, <4>1
        <4>4. QED
          BY <4>2, <4>3 DEF EntryOK
      <3>3. QED
        BY <1>16, <3>1, <3>2
    <2>5. after \subseteq EntryRec
      BY <1>5, <2>3
    <2>6. IdsUnique(after)
      BY <1>6, <2>3 DEF IdsUnique
    <2>7. Bounded(after)
      <3>1. Bounded(bs \ {m}) /\ bs \ {m} \subseteq EntryRec
        BY <1>5, <1>6 DEF Bounded
      <3>2. QED
        BY <1>14, <2>3, <3>1
    <2>8. ASSUME Backed(base, bs) PROVE Backed(base, after)
      <3>1. CASE base = StartPrice
        BY <3>1 DEF Backed
      <3>2. CASE base # StartPrice
        <4>1. PICK b \in bs : b.status = "confirmed" /\ RanksNoWorse(b.amount, base)
          BY <2>8, <3>2 DEF Backed
        <4>2. CASE b # m
          BY <2>3, <4>1, <4>2 DEF Backed
        <4>3. CASE b = m
          <5>1. m.id = Key(bid)
            BY <1>16, <4>1, <4>3 DEF ByKey, ByAmount
          <5>2. PICK a \in Acc : Key(a) = Key(bid) /\ a.amount = m.amount
            BY <1>11, <2>2, <4>1, <4>3, <5>1 DEF EntryOK
          <5>3. x
            BY <1>2, <1>3, <1>5, <5>2 DEF NewsInv
          <5>4. bid \in Acc
            BY <1>8, <5>3
          <5>5. a = bid
            BY <1>5, <5>2, <5>4 DEF KeysInv, KeysDistinct
          <5>6. e.status = "confirmed" /\ e.amount = b.amount /\ e \in after
            BY <2>3, <4>3, <5>2, <5>3, <5>5
          <5>7. QED
            BY <4>1, <5>6 DEF Backed
        <4>4. QED
          BY <4>2, <4>3
      <3>3. QED
        BY <3>1, <3>2
    <2>9. \A b \in after : EntryOK(b, Acc, bids)
      BY <1>6, <2>3, <2>4
    <2>10. QED
      BY <2>5, <2>6, <2>7, <2>8, <2>9
  <1>17. CASE ~ (NoMatch(bs, bid) /\ after = bs \cup {EntryOf(Key(bid), bid, x)})
    <2>1. PICK m \in bs : /\ ByKey(bs, bid, m) \/ ByAmount(bs, bid, m)
                          /\ after = (bs \ {m}) \cup {EntryOf(m.id, bid, x)}
      BY <1>7, <1>17
    <2>2. /\ after \subseteq EntryRec /\ IdsUnique(after) /\ Bounded(after)
          /\ \A b \in after : EntryOK(b, Acc, bids)
          /\ Backed(base, bs) => Backed(base, after)
      BY <1>16, <2>1
    <2>3. QED
      BY <1>1, <1>4, <2>2
  <1>18. QED
    BY <1>15, <1>17

\* And those that speak of the own bids.
Told(u) == told \cup (IF u.bid.bidder = "me" THEN {u.bid.n} ELSE {})

\* Reconciling a decision keeps the own bids backed and counted.
LEMMA ReconcileKeepsOwn ==
    ASSUME RoomInv, NEW u \in News
    PROVE  /\ \A b \in BidRec : OwnOK(b, store.bids) => OwnOK(b, Reconciled(store, u.bid, u.executed))
           /\ \A b, c \in Reconciled(store, u.bid, u.executed) :
                 b.id[1] = "me" /\ c.id = <<"local", b.id[2]>> => b.id[2] \in Told(u)
           /\ DecidedOK(Reconciled(store, u.bid, u.executed), Told(u))
  <1>1. PICK bs : bs = store.bids
    OBVIOUS
  <1>2. PICK bid : bid = u.bid
    OBVIOUS
  <1>3. PICK x \in BOOLEAN : x = u.executed
    BY BidTypes DEF UpdateRec
  <1>4. PICK after : after = Reconciled(store, u.bid, u.executed)
    OBVIOUS
  <1>5. PICK t : t = Told(u)
    OBVIOUS
  <1>6. /\ store \in Stores /\ bs \subseteq EntryRec /\ bids["me"] \in Nat
        /\ KeysInv /\ EntriesInv /\ OwnInv /\ bid \in BidRec
    BY <1>1, <1>2, BidTypes DEF RoomInv, Shapes, Stores, Bidders
  <1>7. IdsUnique(bs) /\ \A b \in bs : EntryOK(b, Acc, bids)
    BY <1>1, <1>6 DEF EntriesInv
  <1>8. \A b \in bs : b.status = "pending" => b.id[1] = "local" /\ b.id[2] <= bids["me"]
    BY <1>7 DEF EntryOK
  <1>9. \/ NoMatch(bs, bid) /\ after = bs \cup {EntryOf(Key(bid), bid, x)}
        \/ \E m \in bs : /\ ByKey(bs, bid, m) \/ ByAmount(bs, bid, m)
                         /\ after = (bs \ {m}) \cup {EntryOf(m.id, bid, x)}
    BY <1>1, <1>2, <1>3, <1>4, <1>6, <1>7, <1>8, ReconciledCases
  <1>10. Key(bid)[1] = bid.bidder /\ Key(bid)[2] = bid.n /\ bid.bidder # "local"
    BY <1>6 DEF Key, BidRec, Bidders
  <1>11. PICK e : \/ NoMatch(bs, bid) /\ e.id = Key(bid) /\ after = bs \cup {e}
                     /\ e.amount = bid.amount /\ e.status # "pending"
                  \/ \E m \in bs : /\ ByKey(bs, bid, m) \/ ByAmount(bs, bid, m)
                                   /\ e.id = m.id /\ after = (bs \ {m}) \cup {e}
                                   /\ e.amount = bid.amount /\ e.status # "pending"
    <2>1. \A id : LET f == EntryOf(id, bid, x)
                 IN  f.id = id /\ f.amount = bid.amount /\ f.status # "pending"
      BY DEF EntryOf
    <2>2. CASE NoMatch(bs, bid) /\ after = bs \cup {EntryOf(Key(bid), bid, x)}
      <3>1. PICK f : f = EntryOf(Key(bid), bid, x)
        OBVIOUS
      <3>2. f.id = Key(bid) /\ f.amount = bid.amount /\ f.status # "pending" /\ after = bs \cup {f}
        BY <2>1, <2>2, <3>1
      <3>3. QED
        BY <2>2, <3>2
    <2>3. ASSUME NEW m \in bs, ByKey(bs, bid, m) \/ ByAmount(bs, bid, m),
                 after = (bs \ {m}) \cup {EntryOf(m.id, bid, x)}
          PROVE  \E f : /\ f.id = m.id /\ after = (bs \ {m}) \cup {f}
                        /\ f.amount = bid.amount /\ f.status # "pending"
      BY <2>1, <2>3
    <2>4. QED
      BY <1>9, <2>2, <2>3
  <1>12. /\ e.id[1] # "local" => e.id = Key(bid)
         /\ e.id[1] = "local" => \E m \in bs : m.id = e.id /\ m.amount = e.amount
         /\ after \subseteq bs \cup {e} /\ e.amount = bid.amount /\ e.status # "pending"
    <2>1. \A m \in bs : m.status = "pending" => m.id[1] = "local"
      BY <1>8
    <2>2. QED
      BY <1>10, <1>11, <2>1 DEF ByKey, ByAmount
  <1>13. \A b \in BidRec : OwnOK(b, bs) => OwnOK(b, after)
    <2> SUFFICES ASSUME NEW b \in BidRec, OwnOK(b, bs), b.bidder = "me", NEW c \in after, c.id = <<"local", b.n>>
                 PROVE  c.amount = b.amount
      BY DEF OwnOK
    <2>1. CASE c \in bs
      BY <2>1 DEF OwnOK
    <2>2. CASE c = e
      <3>1. PICK m \in bs : m.id = e.id /\ m.amount = e.amount
        BY <1>12, <2>2
      <3>2. QED
        BY <2>2, <3>1 DEF OwnOK
    <2>3. QED
      BY <1>12, <2>1, <2>2
  <1>14. \A b \in after : b.id = Key(bid) \/ \E m \in bs : m.id = b.id
    BY <1>12
  <1>15. /\ bid.bidder = "me" => t = told \cup {bid.n}
         /\ bid.bidder # "me" => t = told
    BY <1>2, <1>5 DEF Told
  <1>16. \A b, c \in after : b.id[1] = "me" /\ c.id = <<"local", b.id[2]>> => b.id[2] \in t
    <2> SUFFICES ASSUME NEW b \in after, NEW c \in after, b.id[1] = "me", c.id = <<"local", b.id[2]>>
                 PROVE  b.id[2] \in t
      OBVIOUS
    <2>1. CASE b.id = Key(bid)
      BY <1>10, <1>15, <2>1
    <2>2. CASE b.id # Key(bid)
      <3>1. PICK b0 \in bs : b0.id = b.id
        BY <1>14, <2>2
      <3>2. c.id # Key(bid)
        BY <1>10
      <3>3. PICK c0 \in bs : c0.id = c.id
        BY <1>14, <3>2
      <3>4. b.id[2] \in told
        BY <1>1, <1>6, <3>1, <3>3 DEF OwnInv
      <3>5. QED
        BY <1>15, <3>4
    <2>3. QED
      BY <2>1, <2>2
  <1>17. ASSUME NEW a \in Amounts
         PROVE  Cardinality(PendNums(after, a)) <= Cardinality(OwnNums(after, a) \ t)
    <2>1. PICK P, O : P = PendNums(bs, a) /\ O = OwnNums(bs, a)
      OBVIOUS
    <2>2. Cardinality(P) <= Cardinality(O \ told)
      BY <1>1, <2>1, DecidedIsOK DEF RoomInv, DecidedOK
    <2>3. IsFiniteSet(P) /\ IsFiniteSet(O \ told)
      BY <1>1, <2>1, OwnNumsFinite
    <2>4. Cardinality(P) \in Nat /\ Cardinality(O \ told) \in Nat
      BY <2>3, FS_CardinalityType
    <2>5. OwnNums(after, a) = O
      <3>1. ASSUME NEW n \in OwnNums(after, a) PROVE n \in O
        <4>1. PICK c \in after : c.id[1] = "local" /\ c.amount = a /\ n = c.id[2]
          BY <3>1 DEF OwnNums
        <4>2. PICK m \in bs : m.id = c.id /\ m.amount = c.amount
          BY <1>12, <4>1
        <4>3. QED
          BY <2>1, <4>1, <4>2 DEF OwnNums
      <3>2. ASSUME NEW n \in O PROVE n \in OwnNums(after, a)
        <4>1. PICK c \in bs : c.id[1] = "local" /\ c.amount = a /\ n = c.id[2]
          BY <2>1, <3>2 DEF OwnNums
        <4>2. c.id # Key(bid)
          BY <1>10, <4>1
        <4>3. c \in after \/ (e \in after /\ e.id = c.id /\ e.amount = c.amount)
          BY <1>11, <4>2 DEF ByKey, ByAmount
        <4>4. QED
          BY <4>1, <4>3 DEF OwnNums
      <3>3. QED
        BY <3>1, <3>2
    <2>6. PendNums(after, a) \subseteq P
      BY <1>12, <2>1 DEF PendNums
    <2>7. IsFiniteSet(PendNums(after, a)) /\ Cardinality(PendNums(after, a)) <= Cardinality(P)
          /\ Cardinality(PendNums(after, a)) \in Nat
      BY <2>3, <2>6, FS_Subset, FS_CardinalityType
    <2>8. CASE O \ t = O \ told
      BY <2>2, <2>4, <2>5, <2>7, <2>8
    <2>9. CASE O \ t # O \ told
      <3>1. bid.bidder = "me" /\ bid.n \in O \ told /\ O \ t = (O \ told) \ {bid.n}
        BY <1>15, <2>9
      <3>2. Cardinality(O \ t) = Cardinality(O \ told) - 1
        BY <2>3, <3>1, FS_RemoveElement
      <3>3. PICK c \in bs : c.id[1] = "local" /\ c.amount = a /\ c.id[2] = bid.n
        BY <2>1, <3>1 DEF OwnNums
      <3>4. c.id = <<"local", bid.n>>
        BY <1>6, <3>3 DEF EntryRec
      <3>5. a = bid.amount
        <4>1. OwnOK(bid, bs)
          BY <1>1, <1>2, <1>6 DEF OwnInv
        <4>2. QED
          BY <3>1, <3>3, <3>4, <4>1 DEF OwnOK
      <3>6. \A m \in bs : m.id # Key(bid)
        <4> SUFFICES ASSUME NEW m \in bs, m.id = Key(bid) PROVE FALSE
          OBVIOUS
        <4>1. m.id[1] = "me" /\ c.id = <<"local", m.id[2]>> /\ m.id[2] = bid.n
          BY <1>10, <3>1, <3>4
        <4>2. bid.n \in told
          BY <1>1, <1>6, <4>1 DEF OwnInv
        <4>3. QED
          BY <3>1, <4>2
      <3>7. CASE P = {}
        <4>1. PendNums(after, a) = {}
          BY <2>6, <3>7
        <4>2. Cardinality(PendNums(after, a)) = 0
          BY <4>1, FS_EmptySet
        <4>3. IsFiniteSet(O \ t)
          BY <2>3, <3>1, FS_RemoveElement
        <4>4. Cardinality(O \ t) \in Nat
          BY <4>3, FS_CardinalityType
        <4>5. QED
          BY <2>5, <4>2, <4>4
      <3>8. CASE P # {}
        <4>1. PICK p \in bs : p.status = "pending" /\ p.amount = bid.amount
          BY <2>1, <3>5, <3>8 DEF PendNums
        <4>2. PICK m \in bs : /\ ByAmount(bs, bid, m) /\ after = (bs \ {m}) \cup {e} /\ e.status # "pending"
          BY <1>11, <3>6, <4>1 DEF NoMatch, ByKey
        <4>3. m.status = "pending" /\ m.amount = a /\ m.id[2] \in P
          BY <2>1, <3>5, <4>2 DEF ByAmount, PendNums
        <4>4. m.id[2] \notin PendNums(after, a)
          <5> SUFFICES ASSUME NEW c1 \in after, c1.status = "pending", c1.id[2] = m.id[2] PROVE FALSE
            BY DEF PendNums
          <5>1. c1 \in bs /\ c1 # m
            BY <4>2
          <5>2. c1.id[1] = "local" /\ m.id[1] = "local"
            BY <1>8, <4>3, <5>1
          <5>3. c1.id = m.id
            BY <1>6, <5>1, <5>2 DEF EntryRec
          <5>4. QED
            BY <1>7, <5>1, <5>3 DEF IdsUnique
        <4>5. PendNums(after, a) \in SUBSET (P \ {m.id[2]})
          BY <2>6, <4>4
        <4>6. IsFiniteSet(P \ {m.id[2]}) /\ Cardinality(P \ {m.id[2]}) = Cardinality(P) - 1
          BY <2>3, <4>3, FS_RemoveElement
        <4>7. Cardinality(PendNums(after, a)) <= Cardinality(P \ {m.id[2]})
          BY <4>5, <4>6, FS_Subset
        <4>8. QED
          BY <2>2, <2>4, <2>5, <2>7, <3>2, <4>6, <4>7
      <3>9. QED
        BY <3>7, <3>8
    <2>10. QED
      BY <2>8, <2>9
  <1>18. DecidedOK(after, t)
    BY <1>17 DEF DecidedOK
  <1>19. QED
    BY <1>1, <1>4, <1>5, <1>13, <1>16, <1>18

\* bid_update: one decision is reconciled.
LEMMA OnBidUpdateStep ==
    ASSUME RoomInv, OnBidUpdate
    PROVE  RoomInv'
  <1>1. PICK u : u = Head(inbox)
    OBVIOUS
  <1>2. PICK after : after = Reconciled(store, u.bid, u.executed)
    OBVIOUS
  <1>3. PICK p : p = LeadingPrice(store, after)
    OBVIOUS
  <1>4. PICK t : t = Told(u)
    OBVIOUS
  <1>5. /\ UNCHANGED <<accepted, pipeline, updates, sent, session, bids, base>>
        /\ inbox # <<>> /\ u.type = "update" /\ inbox' = Tail(inbox)
        /\ store' = [store EXCEPT !.bids = after, !.price = p]
        /\ told' = t
    BY <1>1, <1>2, <1>3, <1>4 DEF OnBidUpdate, ReconcileBid, Told, serverVars
  <1>6. inbox \in Seq(UpdateRec \cup InitRec) /\ store \in Stores /\ told \subseteq Nat
    BY DEF RoomInv, Shapes
  <1>7. /\ u \in Ran(inbox) /\ inbox' \in Seq(UpdateRec \cup InitRec) /\ Ran(inbox)' \subseteq Ran(inbox)
    <2>1. Tail(inbox) \in Seq(UpdateRec \cup InitRec) /\ Ran(Tail(inbox)) \subseteq Ran(inbox) /\ Head(inbox) \in Ran(inbox)
      BY <1>5, <1>6, RanTail
    <2>2. QED
      BY <1>1, <1>5, <2>1
  <1>8. u \in News /\ News' \subseteq News /\ Snapshots' \subseteq Snapshots /\ Acc' = Acc /\ Queue' = Queue
    BY <1>5, <1>7 DEF News, Snapshots, Acc, Queue
  <1>9. /\ after \subseteq EntryRec /\ IdsUnique(after) /\ Bounded(after)
        /\ \A b \in after : EntryOK(b, Acc, bids)
        /\ Backed(base, store.bids) => Backed(base, after)
    BY <1>2, <1>8, ReconcileKeepsEntries
  <1>10. /\ \A b \in BidRec : OwnOK(b, store.bids) => OwnOK(b, after)
         /\ \A b, c \in after : b.id[1] = "me" /\ c.id = <<"local", b.id[2]>> => b.id[2] \in t
         /\ DecidedOK(after, t)
    BY <1>2, <1>4, <1>8, ReconcileKeepsOwn
  <1>11. p \in Nat /\ (store.known => IsLead(p, after))
    BY <1>3, <1>6, <1>9, LeadingPriceIsLead
  <1>12. store' \in Stores /\ store'.bids = after /\ store'.price = p /\ store'.known = store.known
    BY <1>5, <1>6, <1>9, <1>11 DEF Stores
  <1>13. u.bid \in BidRec /\ u.bid.n \in Nat /\ u.bid.n <= bids[u.bid.bidder]
    BY <1>8, BidTypes DEF RoomInv, KeysInv, BidRec
  <1>14. t \subseteq Nat /\ \A n \in t : n <= bids["me"]
    BY <1>4, <1>6, <1>13 DEF Told, RoomInv, KeysInv
  <1>15. Shapes'
    BY <1>5, <1>7, <1>12, <1>14 DEF RoomInv, Shapes
  <1>16. LedgerInv'
    BY <1>5 DEF RoomInv, LedgerInv
  <1>17. KeysInv'
    BY <1>5, <1>8, <1>14 DEF RoomInv, KeysInv
  <1>18. NewsInv'
    BY <1>5, <1>8 DEF RoomInv, NewsInv
  <1>19. SnapshotInv'
    BY <1>5, <1>8, SnapshotsKept
  <1>20. EntriesInv'
    BY <1>5, <1>8, <1>9, <1>12 DEF EntriesInv
  <1>21. PriceInv'
    BY <1>11, <1>12 DEF PriceInv
  <1>22. BackedInv'
    BY <1>5, <1>9, <1>12 DEF RoomInv, BackedInv
  <1>23. OwnInv'
    <2>1. \A b \in sent \cup Queue : b \in BidRec /\ OwnOK(b, store.bids)
      BY BidTypes DEF RoomInv, OwnInv
    <2>2. \A v \in News : v.bid \in BidRec /\ OwnOK(v.bid, store.bids)
      BY BidTypes DEF RoomInv, OwnInv
    <2>3. QED
      BY <1>5, <1>8, <1>10, <1>12, <2>1, <2>2 DEF OwnInv
  <1>24. DecidedIsNotPending'
    BY <1>5, <1>10, <1>12 DEF DecidedIsNotPending, DecidedOK, Awaiting, Undecided, PendNums, OwnNums
  <1>25. QED
    BY <1>15, <1>16, <1>17, <1>18, <1>19, <1>20, <1>21, <1>22, <1>23, <1>24 DEF RoomInv

\* The accepted amounts have a bound: the start price or the last of them.
LEMMA AcceptedBounded ==
    ASSUME RoomInv
    PROVE  Bounded(Confirmed(Acc))
  <1>1. accepted \in Seq(BidRec) /\ Acc \subseteq BidRec /\ LedgerInv
    BY BidTypes DEF RoomInv, Shapes
  <1>2. \A e \in Confirmed(Acc) : \E b \in Acc : e.amount = b.amount
    BY DEF Confirmed, EntryOf
  <1>3. \E top \in Amounts \cup {StartPrice} : \A b \in Acc : b.amount <= top
    <2>1. CASE AuctionType = "REVERSE" \/ accepted = <<>>
      <3>1. \A b \in Acc : b.amount <= StartPrice
        BY <1>1, <2>1 DEF LedgerInv, Acc, Ran, RanksNoWorse, RanksFirst
      <3>2. QED
        BY <3>1
    <2>2. CASE AuctionType # "REVERSE" /\ accepted # <<>>
      <3>1. Len(accepted) \in Nat /\ Len(accepted) >= 1
        BY <1>1, <2>2, RanTail
      <3>2. PICK l \in 1..Len(accepted) : l = Len(accepted)
        BY <3>1
      <3>3. accepted[l] \in BidRec
        BY <1>1
      <3>4. accepted[l].amount \in Amounts
        BY <3>3 DEF BidRec
      <3>5. \A i \in 1..Len(accepted) : RanksNoWorse(accepted[l].amount, accepted[i].amount)
        BY <1>1, <3>1, <3>2 DEF LedgerInv
      <3>6. \A b \in Acc : b.amount \in Nat /\ RanksNoWorse(accepted[l].amount, b.amount)
        BY <1>1, <3>5, AmountsType DEF Acc, Ran, BidRec
      <3>7. \A b \in Acc : b.amount <= accepted[l].amount
        BY <2>2, <3>4, <3>6, AmountsType DEF RanksNoWorse, RanksFirst
      <3>8. QED
        BY <3>4, <3>7
    <2>3. QED
      BY <2>1, <2>2
  <1>4. QED
    BY <1>2, <1>3 DEF Bounded

\* A store that a snapshot has filled satisfies what the invariant says of entries.
LEMMA FilledStore ==
    ASSUME RoomInv, NEW s, NEW B, B \subseteq Acc, NEW status, FilledWith(s, B, status)
    PROVE  /\ IdsUnique(s.bids) /\ Bounded(s.bids) /\ \A e \in s.bids : EntryOK(e, Acc, bids)
           /\ \A e \in s.bids : e.id[1] # "local" /\ e.status = "confirmed"
           /\ \A a \in B : \E e \in s.bids : e.status = "confirmed" /\ e.amount = a.amount
  <1>1. s.bids = Confirmed(B) /\ Acc \subseteq BidRec /\ KeysInv /\ LedgerInv
    BY BidTypes DEF FilledWith, RoomInv
  <1>2. \A e \in s.bids : \E b \in B : e = EntryOf(Key(b), b, TRUE)
    BY <1>1 DEF Confirmed
  <1>3. ASSUME NEW b \in B
        PROVE  LET e == EntryOf(Key(b), b, TRUE)
               IN  /\ e.id = Key(b) /\ e.amount = b.amount /\ e.status = "confirmed"
                   /\ e.id[1] = b.bidder /\ e.id[2] = b.n /\ b.bidder # "local"
    BY <1>1 DEF EntryOf, Key, BidRec, Bidders
  <1>4. IdsUnique(s.bids)
    <2> SUFFICES ASSUME NEW m1 \in s.bids, NEW m2 \in s.bids, m1.id = m2.id PROVE m1 = m2
      BY DEF IdsUnique
    <2>1. PICK b1 \in B : m1 = EntryOf(Key(b1), b1, TRUE)
      BY <1>2
    <2>2. PICK b2 \in B : m2 = EntryOf(Key(b2), b2, TRUE)
      BY <1>2
    <2>3. Key(b1) = Key(b2)
      BY <1>3, <2>1, <2>2
    <2>4. b1 = b2
      BY <1>1, <2>3 DEF KeysInv, KeysDistinct
    <2>5. QED
      BY <2>1, <2>2, <2>4
  <1>5. Bounded(s.bids)
    <2>1. s.bids \subseteq Confirmed(Acc)
      BY <1>1 DEF Confirmed
    <2>2. QED
      BY <2>1, AcceptedBounded DEF Bounded
  <1>6. ASSUME NEW e \in s.bids
        PROVE  EntryOK(e, Acc, bids) /\ e.id[1] # "local" /\ e.status = "confirmed"
    <2>1. PICK b \in B : e = EntryOf(Key(b), b, TRUE)
      BY <1>2
    <2>2. /\ e.id = Key(b) /\ e.amount = b.amount /\ e.status = "confirmed"
          /\ e.id[1] = b.bidder /\ e.id[2] = b.n /\ b.bidder # "local"
      BY <1>3, <2>1
    <2>3. b \in Acc /\ b.n <= bids[b.bidder]
      BY <1>1 DEF KeysInv
    <2>4. RanksNoWorse(b.amount, StartPrice)
      BY <1>1, <2>3 DEF LedgerInv, Acc, Ran
    <2>5. QED
      BY <2>2, <2>3, <2>4 DEF EntryOK
  <1>7. \A a \in B : \E e \in s.bids : e.status = "confirmed" /\ e.amount = a.amount
    BY <1>1, <1>3 DEF Confirmed
  <1>8. QED
    BY <1>4, <1>5, <1>6, <1>7

\* auction_init: the store is filled again with accepted bids that cover the price
\* at the time of joining.
LEMMA OnAuctionInitStep ==
    ASSUME RoomInv, OnAuctionInit
    PROVE  RoomInv'
  <1>1. PICK m : m = Head(inbox)
    OBVIOUS
  <1>2. PICK s0 : s0 = InitAuction
    OBVIOUS
  <1>3. PICK s1 : s1 = ReconcileAll(s0, m.recent)
    OBVIOUS
  <1>4. PICK s2 : s2 = ReconcileAll(s1, m.leading)
    OBVIOUS
  <1>5. PICK st : st = StatusAt(ClientNow)
    OBVIOUS
  <1>6. /\ UNCHANGED <<accepted, pipeline, updates, sent, session, bids>>
        /\ inbox # <<>> /\ m.type = "init" /\ inbox' = Tail(inbox)
        /\ store' = s2 /\ told' = {} /\ base' = m.best
    BY <1>1, <1>2, <1>3, <1>4 DEF OnAuctionInit, serverVars
  <1>7. inbox \in Seq(UpdateRec \cup InitRec) /\ Acc \subseteq BidRec /\ KeysDistinct(Acc)
    BY BidTypes DEF RoomInv, Shapes, KeysInv
  <1>8. /\ m \in UpdateRec \cup InitRec /\ m \in Ran(inbox)
        /\ inbox' \in Seq(UpdateRec \cup InitRec) /\ Ran(inbox)' \subseteq Ran(inbox)
    <2>1. /\ Tail(inbox) \in Seq(UpdateRec \cup InitRec) /\ Ran(Tail(inbox)) \subseteq Ran(inbox)
          /\ Head(inbox) \in Ran(inbox) /\ Head(inbox) \in UpdateRec \cup InitRec
      BY <1>6, <1>7, RanTail
    <2>2. QED
      BY <1>1, <1>6, <2>1
  <1>9. m.leading \in Seq(BidRec) /\ m.recent \in Seq(BidRec) /\ m.best \in Nat
    BY <1>6, <1>8 DEF UpdateRec, InitRec
  <1>10. News' \subseteq News /\ Snapshots' \subseteq Snapshots /\ Acc' = Acc /\ Queue' = Queue
    BY <1>6, <1>8 DEF News, Snapshots, Acc, Queue
  <1>11. Ran(m.leading) \subseteq Acc /\ Ran(m.recent) \subseteq Acc /\ Covers(m.leading, m.best)
    BY <1>6, <1>8 DEF RoomInv, SnapshotInv, Snapshots
  <1>12. Bounded(Confirmed(Acc))
    BY AcceptedBounded
  <1>13. FilledWith(s0, {}, st)
    <2>1. st \in {"waiting", "active", "ended"}
      BY <1>5 DEF StatusAt
    <2>2. s0 = [known |-> TRUE, price |-> StartPrice, bids |-> {}, status |-> st]
      BY <1>2, <1>5 DEF InitAuction
    <2>3. s0 \in Stores /\ s0.known /\ s0.status = st /\ s0.bids = {} /\ s0.price = StartPrice
      BY <2>1, <2>2, AmountsType DEF Stores
    <2>4. Confirmed({}) = {} /\ IsLead(StartPrice, {})
      BY DEF Confirmed, IsLead, Valid
    <2>5. QED
      BY <2>3, <2>4 DEF FilledWith
  <1>14. FilledWith(s1, {} \cup Ran(m.recent), st)
    <2>1. {} \subseteq Acc
      OBVIOUS
    <2>2. QED
      BY <1>3, <1>7, <1>9, <1>11, <1>12, <1>13, <2>1, FillAll
  <1>15. PICK B : B = ({} \cup Ran(m.recent)) \cup Ran(m.leading)
    OBVIOUS
  <1>16. FilledWith(s2, B, st) /\ B \subseteq Acc
    <2>1. {} \cup Ran(m.recent) \subseteq Acc
      BY <1>11
    <2>2. FilledWith(s2, ({} \cup Ran(m.recent)) \cup Ran(m.leading), st)
      BY <1>4, <1>7, <1>9, <1>11, <1>12, <1>14, <2>1, FillAll
    <2>3. QED
      BY <1>11, <1>15, <2>2
  <1>17. /\ IdsUnique(s2.bids) /\ Bounded(s2.bids) /\ \A e \in s2.bids : EntryOK(e, Acc, bids)
         /\ \A e \in s2.bids : e.id[1] # "local" /\ e.status = "confirmed"
         /\ \A a \in B : \E e \in s2.bids : e.status = "confirmed" /\ e.amount = a.amount
    BY <1>16, FilledStore
  <1>18. s2 \in Stores /\ IsLead(s2.price, s2.bids)
    BY <1>16 DEF FilledWith
  <1>19. Shapes'
    BY <1>6, <1>8, <1>9, <1>18 DEF RoomInv, Shapes
  <1>20. LedgerInv'
    BY <1>6 DEF RoomInv, LedgerInv
  <1>21. KeysInv'
    BY <1>6, <1>10 DEF RoomInv, KeysInv
  <1>22. NewsInv'
    BY <1>6, <1>10 DEF RoomInv, NewsInv
  <1>23. SnapshotInv'
    BY <1>6, <1>10, SnapshotsKept
  <1>24. EntriesInv'
    BY <1>6, <1>10, <1>17 DEF EntriesInv
  <1>25. PriceInv'
    BY <1>6, <1>18 DEF PriceInv
  <1>26. BackedInv'
    <2>1. Backed(m.best, s2.bids)
      BY <1>11, <1>15, <1>17 DEF Backed, Covers
    <2>2. QED
      BY <1>6, <2>1 DEF BackedInv
  <1>27. OwnInv'
    <2>1. \A b, c \in s2.bids : c.id # <<"local", b.id[2]>>
      BY <1>17
    <2>2. \A b : OwnOK(b, s2.bids)
      BY <1>17 DEF OwnOK
    <2>3. QED
      BY <1>6, <2>1, <2>2 DEF OwnInv
  <1>28. DecidedIsNotPending'
    <2>1. \A a \in Amounts : Awaiting(a)' = {} /\ Undecided(a)' = {}
      BY <1>6, <1>17 DEF Awaiting, Undecided
    <2>2. Cardinality({}) <= Cardinality({})
      BY FS_EmptySet
    <2>3. QED
      BY <2>1, <2>2 DEF DecidedIsNotPending
  <1>29. QED
    BY <1>19, <1>20, <1>21, <1>22, <1>23, <1>24, <1>25, <1>26, <1>27, <1>28 DEF RoomInv

\* Every step of the browser, the server and the rest keeps the invariant.
LEMMA RoomNext == RoomInv /\ [Next]_vars => RoomInv'
  <1> SUFFICES ASSUME RoomInv, [Next]_vars PROVE RoomInv'
    OBVIOUS
  <1>1. CASE Browser
    BY <1>1, ConnectionStep, OnAuctionInitStep, OnBidUpdateStep, TimerStep DEF Browser
  <1>2. CASE Server
    BY <1>2, JoinStep, ReadStep, EmitInitStep, FanOutStep DEF Server
  <1>3. CASE Drop
    BY <1>3, ConnectionStep
  <1>4. CASE Hydrate \/ Tick \/ UNCHANGED vars
    BY <1>4, TimerStep
  <1>5. CASE Decide
    BY <1>5, DecideStep
  <1>6. ASSUME NEW amount \in Amounts, Submit(amount) \/ OtherBid(amount) PROVE RoomInv'
    BY <1>6, SubmitStep, OtherBidStep
  <1>7. ASSUME NEW bid \in sent, PlaceBid(bid) PROVE RoomInv'
    BY <1>7, PlaceBidStep
  <1>8. QED
    BY <1>1, <1>2, <1>3, <1>4, <1>5, <1>6, <1>7 DEF Next

-----------------------------------------------------------------------------
(* Theorems *)

\* The live room keeps its invariant: bids are in one place, snapshots hold accepted
\* bids, and the store's entries, price and pending bids follow the decisions.
THEOREM RoomInvariant == Spec => []RoomInv
  BY RoomInit, RoomNext, PTL DEF Spec

\* The best entry is the winner, and on the leaderboard.
LEMMA LeadIsWinner == RoomInv => LeaderIsPrice
  <1> SUFFICES ASSUME RoomInv, store.known, Valid(store.bids) # {}
               PROVE  /\ Winner(store.bids).amount = store.price
                      /\ \E b \in Leaderboard(store.bids) : b.amount = store.price
    BY DEF LeaderIsPrice
  <1>1. PICK V : V = Valid(store.bids)
    OBVIOUS
  <1>2. V \subseteq EntryRec /\ store.price \in Nat
    BY <1>1 DEF RoomInv, Shapes, Stores, Valid
  <1>3. \A b \in V : b.amount \in Nat
    BY <1>2, AmountsType DEF EntryRec
  <1>4. PICK b \in V : b.amount = store.price
    BY <1>1 DEF RoomInv, PriceInv, IsLead
  <1>5. \A c \in V : RanksNoWorse(b.amount, c.amount)
    BY <1>1, <1>4 DEF RoomInv, PriceInv, IsLead
  <1>6. \A c \in V : RanksFirst(AuctionType, b.amount, c.amount)
    BY <1>5 DEF RanksNoWorse
  <1>7. PICK w : w = Winner(store.bids)
    OBVIOUS
  <1>8. w \in V /\ \A c \in V : RanksFirst(AuctionType, w.amount, c.amount)
    BY <1>1, <1>6, <1>7 DEF Winner
  <1>9. w.amount = b.amount
    <2>1. RanksNoWorse(w.amount, b.amount) /\ RanksNoWorse(b.amount, w.amount)
      BY <1>5, <1>8 DEF RanksNoWorse
    <2>2. QED
      BY <1>3, <1>8, <2>1, RanksOrder
  <1>10. b \in Leaderboard(store.bids)
    BY <1>1, <1>6 DEF Leaderboard
  <1>11. QED
    BY <1>4, <1>7, <1>9, <1>10

\* auctionSlice: the price shown is that of the leaderboard's leader and of the
\* winner announced, whatever order bids, decisions, snapshots and reconnections
\* come in.
THEOREM PriceIsTheLeaders == Spec => []LeaderIsPrice
  BY RoomInvariant, LeadIsWinner, PTL

\* A confirmed entry that covers the base keeps the price there.
LEMMA BackedCatchesUp == RoomInv => CatchesUp
  <1> SUFFICES ASSUME RoomInv, store.known PROVE RanksNoWorse(store.price, base)
    BY DEF CatchesUp, RanksNoWorse
  <1>1. store.price \in Nat /\ RanksNoWorse(store.price, StartPrice)
    BY PriceBeatsStart
  <1>2. Backed(base, store.bids) /\ IsLead(store.price, store.bids) /\ base \in Nat /\ store.bids \subseteq EntryRec
    BY DEF RoomInv, BackedInv, PriceInv, Shapes, Stores
  <1>3. CASE base = StartPrice
    BY <1>1, <1>3
  <1>4. CASE base # StartPrice
    <2>1. PICK b \in store.bids : b.status = "confirmed" /\ RanksNoWorse(b.amount, base)
      BY <1>2, <1>4 DEF Backed
    <2>2. b \in Valid(store.bids) /\ b.amount \in Nat
      BY <1>2, <2>1, AmountsType DEF Valid, EntryRec
    <2>3. RanksNoWorse(store.price, b.amount)
      BY <1>2, <2>2 DEF IsLead
    <2>4. QED
      BY <1>1, <1>2, <2>1, <2>2, <2>3, RanksOrder
  <1>5. QED
    BY <1>3, <1>4

\* useAuctionSocket: a browser that has taken a snapshot shows a price at least as
\* good as the best one when its session joined the room, for every window and
\* whatever is decided, published or lost meanwhile.
THEOREM SnapshotsCatchUp == Spec => []CatchesUp
  BY RoomInvariant, BackedCatchesUp, PTL

\* reconcileBid: of every amount, no more own bids are shown as awaiting
\* confirmation than have no decision yet, for any number of bids.
THEOREM DecidedBidsAreNotPending == Spec => []DecidedIsNotPending
  <1>1. RoomInv => DecidedIsNotPending
    BY DEF RoomInv
  <1>2. QED
    BY <1>1, RoomInvariant, PTL
=============================================================================
