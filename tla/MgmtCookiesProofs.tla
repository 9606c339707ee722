--------------------------- MODULE MgmtCookiesProofs ---------------------------
(***************************************************************************)
(* Proofs about MgmtCookies, for every value of its constants.             *)
(***************************************************************************)
EXTENDS MgmtCookies, SequenceTheorems, WellFoundedInduction, TLAPS

-----------------------------------------------------------------------------
(* The inductive invariant *)

\* Frame f was handed to the firmware, which has not told its cookie yet.
Waiting(f) == f \in Range(accepting)

\* cookie_list has a pair of frame f.
Listed(f) == \E i \in DOMAIN cookie_list : cookie_list[i].rpu_cookie = f

\* No two pairs of the list s are about the same frame.
OnePerFrame(s) ==
  \A i, j \in DOMAIN s : s[i].rpu_cookie = s[j].rpu_cookie => i = j

\* The driver has not heard of frame f, and will not before its cookie response.
Unheard(f) ==
  /\ f \notin sending /\ f \notin dropped /\ ~Listed(f) /\ status[f] = NoStatus
  /\ ~OnItsWay("cookie_rsp", f) /\ ~OnItsWay("tx_status", f)

\* Frames are numbered as they are handed over, and no cookie is 0.
HostInv ==
  /\ Len(host) <= MaxFrames
  /\ \A f \in DOMAIN host : host[f] # 0

\* A frame waits first, then its cookie response is on its way, then it is
\* sent, then its status is on its way, and that ends it.
PlaceInv ==
  \A f \in Frames :
     /\ Waiting(f) => Unheard(f)
     /\ f > Len(host) => Unheard(f) /\ ~Waiting(f)
     /\ f \in sending => ~OnItsWay("tx_status", f) /\ status[f] = NoStatus
     /\ OnItsWay("tx_status", f) => status[f] = NoStatus
     /\ OnItsWay("cookie_rsp", f) =>
          f \notin dropped /\ (f \in sending \/ OnItsWay("tx_status", f))

\* The event a is before the event b in the sequence s.
Before(s, a, b) == \A i, j \in DOMAIN s : s[i] = a /\ s[j] = b => i < j

Rsp(f)  == [type |-> "cookie_rsp", frame |-> f]
Stat(f) == [type |-> "tx_status", frame |-> f]

\* No frame waits twice, no event comes twice, and a frame's cookie response
\* comes before its status.
OrderInv ==
  /\ IsInjective(accepting) /\ IsInjective(events)
  /\ \A f \in Frames : Before(events, Rsp(f), Stat(f))

\* The pairs are right, and the list is what ListIsOutstanding says.
PairInv ==
  /\ OnePerFrame(cookie_list)
  /\ \A i \in DOMAIN cookie_list :
        cookie_list[i].host_cookie = host[cookie_list[i].rpu_cookie]
  /\ \A f \in Frames :
        Listed(f) <=> /\ f \in sending \/ OnItsWay("tx_status", f)
                      /\ ~OnItsWay("cookie_rsp", f) /\ f \notin dropped

IInv == TypeOK /\ HostInv /\ PlaceInv /\ OrderInv /\ PairInv /\ StatusReachesSender

-----------------------------------------------------------------------------
(* Induction over the natural numbers, stated for sets *)

\* A set of numbers that holds 0 and every successor of its members up to N
\* holds every number up to N.
LEMMA InductionUpTo ==
  ASSUME NEW N \in Nat, NEW S, 0 \in S,
         \A n \in 1..N : n - 1 \in S => n \in S
  PROVE  \A n \in 0..N : n \in S
<1> DEFINE R == {ss \in Nat \X Nat : ss[1] < ss[2]}
           T == {n \in 0..N : n \notin S}
<1>1. IsWellFoundedOn(R, Nat)
  BY NatLessThanWellFounded, Zenon DEF OpToRel
<1> SUFFICES ASSUME T # {} PROVE FALSE
  OBVIOUS
<1>2. T \subseteq Nat
  OBVIOUS
<1> HIDE DEF R
<1>3. PICK x \in T : \A y \in T : <<y, x>> \notin R
  BY <1>1, <1>2, WFMin
<1>4. x \in 1..N /\ x - 1 \in 0..N
  BY <1>3
<1>5. <<x - 1, x>> \in R
  BY <1>4 DEF R
<1>6. x - 1 \in S
  BY <1>3, <1>4, <1>5
<1> QED BY <1>3, <1>4, <1>6

-----------------------------------------------------------------------------
(* The walk of the list *)

\* The list left by one step of the walk, when w was left by the ones before.
WalkStep(rpu, w, n) ==
  IF cookie_list[n].rpu_cookie = rpu THEN w ELSE Append(w, cookie_list[n])

\* g is the walk as far as the n-th entry.
IsWalk(g, rpu, n) ==
  /\ g \in [0..n -> Seq(Entry)]
  /\ g[0] = <<>>
  /\ \A k \in 1..n : g[k] = WalkStep(rpu, g[k - 1], k)

\* A step of the walk leaves a list.
LEMMA WalkStepType ==
  ASSUME NEW rpu, cookie_list \in Seq(Entry), NEW w \in Seq(Entry),
         NEW n \in 1..Len(cookie_list)
  PROVE  WalkStep(rpu, w, n) \in Seq(Entry)
<1>1. cookie_list[n] \in Entry
  BY ElementOfSeq
<1> QED BY <1>1, AppendProperties DEF WalkStep

\* The walk gets to the end of the list.
LEMMA WalkExists ==
  ASSUME NEW rpu, cookie_list \in Seq(Entry)
  PROVE  \E g : IsWalk(g, rpu, Len(cookie_list))
<1> DEFINE N == Len(cookie_list)
           S == {n \in 0..N : \E g : IsWalk(g, rpu, n)}
<1>1. N \in Nat
  BY LenProperties
<1>2. 0 \in S
  <2>1. <<>> \in Seq(Entry)
    BY EmptySeq
  <2>2. IsWalk([k \in 0..0 |-> <<>>], rpu, 0)
    BY <2>1 DEF IsWalk
  <2>3. 0 \in 0..N
    BY <1>1
  <2> QED BY <2>2, <2>3
<1>3. ASSUME NEW n \in 1..N, n - 1 \in S PROVE n \in S
  <2>1. PICK g : IsWalk(g, rpu, n - 1)
    BY <1>3
  <2> DEFINE h == [k \in 0..n |-> IF k = n THEN WalkStep(rpu, g[n - 1], n) ELSE g[k]]
  <2>2. n \in 0..N /\ n \in Nat /\ n - 1 \in 0..(n - 1) /\ 0 \in 0..n /\ 0 \in 0..(n - 1)
    BY <1>1
  <2>3. g[n - 1] \in Seq(Entry)
    BY <2>1, <2>2 DEF IsWalk
  <2>4. WalkStep(rpu, g[n - 1], n) \in Seq(Entry)
    BY <2>3, WalkStepType
  <2>5. ASSUME NEW k \in 0..n, k # n PROVE k \in 0..(n - 1) /\ g[k] \in Seq(Entry)
    BY <2>1, <2>2, <2>5 DEF IsWalk
  <2>6. h \in [0..n -> Seq(Entry)]
    BY <2>4, <2>5
  <2>7. h[0] = <<>>
    BY <2>1, <2>2 DEF IsWalk
  <2>8. ASSUME NEW k \in 1..n PROVE h[k] = WalkStep(rpu, h[k - 1], k)
    <3>1. k \in 0..n /\ k - 1 \in 0..n /\ k - 1 # n
      BY <2>2
    <3>2. h[k - 1] = g[k - 1]
      BY <3>1
    <3>3. CASE k = n
      BY <3>1, <3>2, <3>3
    <3>4. CASE k # n
      <4>1. k \in 1..(n - 1)
        BY <2>2, <3>4
      <4>2. g[k] = WalkStep(rpu, g[k - 1], k)
        BY <2>1, <4>1 DEF IsWalk
      <4> QED BY <3>1, <3>2, <3>4, <4>2
    <3> QED BY <3>3, <3>4
  <2>9. IsWalk(h, rpu, n)
    BY <2>6, <2>7, <2>8 DEF IsWalk
  <2> QED BY <2>2, <2>9
<1>4. \A n \in 0..N : n \in S
  <2> HIDE DEF S
  <2> QED BY <1>1, <1>2, <1>3, InductionUpTo
<1>5. N \in 0..N
  BY <1>1
<1> QED BY <1>4, <1>5

\* Walked is defined: it satisfies the equations of its recursion.
LEMMA WalkedEquations ==
  ASSUME NEW rpu, cookie_list \in Seq(Entry)
  PROVE  /\ Walked(rpu)[0] = <<>>
         /\ \A n \in 1..Len(cookie_list) :
               Walked(rpu)[n] = WalkStep(rpu, Walked(rpu)[n - 1], n)
<1> DEFINE N == Len(cookie_list)
           F(g) == [n \in 0..N |->
                      IF n = 0 THEN <<>>
                      ELSE IF cookie_list[n].rpu_cookie = rpu THEN g[n - 1]
                      ELSE Append(g[n - 1], cookie_list[n])]
<1>0. N \in Nat
  BY LenProperties
<1>1. Walked(rpu) = CHOOSE g : g = F(g)
  BY DEF Walked
<1>2. PICK g : IsWalk(g, rpu, N)
  BY WalkExists
<1>3. \A k \in 0..N : g[k] = F(g)[k]
  <2> TAKE k \in 0..N
  <2>1. CASE k = 0
    BY <1>2, <2>1 DEF IsWalk
  <2>2. CASE k # 0
    <3>1. k \in 1..N
      BY <1>0, <2>2
    <3> QED BY <1>2, <2>2, <3>1 DEF IsWalk, WalkStep
  <2> QED BY <2>1, <2>2
<1>4. g = F(g)
  BY <1>2, <1>3 DEF IsWalk
<1>5. Walked(rpu) = F(Walked(rpu))
  <2> HIDE DEF F
  <2> QED BY <1>1, <1>4
<1>6. 0 \in 0..N
  BY <1>0
<1>7. Walked(rpu)[0] = <<>>
  BY <1>5, <1>6
<1>8. ASSUME NEW n \in 1..N
      PROVE  Walked(rpu)[n] = WalkStep(rpu, Walked(rpu)[n - 1], n)
  <2>1. n \in 0..N /\ n # 0
    BY <1>0
  <2> QED BY <1>5, <2>1 DEF WalkStep
<1> QED BY <1>7, <1>8

\* w holds those of the first n pairs that are not about rpu, once each if the
\* list holds them once.
HoldsOthers(w, rpu, n) ==
  /\ w \in Seq(Entry)
  /\ \A i \in DOMAIN w : \E j \in 1..n :
        w[i] = cookie_list[j] /\ cookie_list[j].rpu_cookie # rpu
  /\ \A j \in 1..n : cookie_list[j].rpu_cookie # rpu =>
        \E i \in DOMAIN w : w[i] = cookie_list[j]
  /\ OnePerFrame(w)

\* A step of the walk keeps what HoldsOthers says of the part walked.
LEMMA WalkStepHoldsOthers ==
  ASSUME NEW rpu, cookie_list \in Seq(Entry), OnePerFrame(cookie_list),
         NEW n \in 1..Len(cookie_list), NEW w, HoldsOthers(w, rpu, n - 1)
  PROVE  HoldsOthers(WalkStep(rpu, w, n), rpu, n)
<1> DEFINE e == cookie_list[n]
           v == WalkStep(rpu, w, n)
<1>0. /\ Len(cookie_list) \in Nat /\ DOMAIN cookie_list = 1..Len(cookie_list)
      /\ w \in Seq(Entry) /\ Len(w) \in Nat /\ DOMAIN w = 1..Len(w)
  BY LenProperties DEF HoldsOthers
<1>1. n \in Nat /\ n \in DOMAIN cookie_list /\ e \in Entry
  BY <1>0, ElementOfSeq
<1>2. \A j \in 1..n : j \in 1..(n - 1) \/ j = n
  BY <1>1
<1>3. \A j \in 1..(n - 1) : j \in 1..n /\ j # n /\ j \in DOMAIN cookie_list
  BY <1>0, <1>1
<1>4. n \in 1..n
  BY <1>1
<1>5. CASE e.rpu_cookie = rpu
  <2>1. v = w
    BY <1>5 DEF WalkStep
  <2> QED BY <1>2, <1>3, <1>5, <2>1 DEF HoldsOthers
<1>6. CASE e.rpu_cookie # rpu
  <2>1. v = Append(w, e)
    BY <1>6 DEF WalkStep
  <2>2. /\ v \in Seq(Entry) /\ Len(v) = Len(w) + 1 /\ DOMAIN v = 1..(Len(w) + 1)
        /\ v[Len(w) + 1] = e
        /\ \A i \in 1..Len(w) : v[i] = w[i]
    BY <1>0, <1>1, <2>1, AppendProperties, LenProperties
  <2>3. \A i \in DOMAIN v : i \in DOMAIN w \/ i = Len(w) + 1
    BY <1>0, <2>2
  <2>4. \A i \in DOMAIN w : i \in DOMAIN v /\ i # Len(w) + 1 /\ v[i] = w[i]
    BY <1>0, <2>2
  <2>5. Len(w) + 1 \in DOMAIN v
    BY <1>0, <2>2
  <2> HIDE DEF v, e
  <2>6. ASSUME NEW i \in DOMAIN v
        PROVE  \E j \in 1..n : v[i] = cookie_list[j] /\ cookie_list[j].rpu_cookie # rpu
    <3>1. CASE i = Len(w) + 1
      BY <1>4, <1>6, <2>2, <3>1 DEF e
    <3>2. CASE i \in DOMAIN w
      BY <1>3, <2>4, <3>2 DEF HoldsOthers
    <3> QED BY <2>3, <3>1, <3>2
  <2>7. ASSUME NEW j \in 1..n, cookie_list[j].rpu_cookie # rpu
        PROVE  \E i \in DOMAIN v : v[i] = cookie_list[j]
    <3>1. CASE j = n
      BY <2>2, <2>5, <3>1 DEF e
    <3>2. CASE j \in 1..(n - 1)
      BY <2>4, <2>7, <3>2 DEF HoldsOthers
    <3> QED BY <1>2, <3>1, <3>2
  <2>8. ASSUME NEW i \in DOMAIN w PROVE v[i].rpu_cookie # v[Len(w) + 1].rpu_cookie
    <3>1. PICK j \in 1..(n - 1) : w[i] = cookie_list[j]
      BY DEF HoldsOthers
    <3>2. cookie_list[j].rpu_cookie # cookie_list[n].rpu_cookie
      BY <1>1, <1>3 DEF OnePerFrame
    <3> QED BY <2>2, <2>4, <3>1, <3>2 DEF e
  <2>9. OnePerFrame(v)
    <3> SUFFICES ASSUME NEW i \in DOMAIN v, NEW j \in DOMAIN v,
                        v[i].rpu_cookie = v[j].rpu_cookie
                 PROVE  i = j
      BY DEF OnePerFrame
    <3>1. CASE i \in DOMAIN w /\ j \in DOMAIN w
      BY <2>4, <3>1 DEF HoldsOthers, OnePerFrame
    <3> QED BY <2>3, <2>8, <3>1
  <2> QED BY <2>2, <2>6, <2>7, <2>9 DEF HoldsOthers, v
<1> QED BY <1>5, <1>6

\* The loop of tx_status takes the frame's pairs out of the list and keeps the
\* others: by induction over the part of the list walked.
LEMMA UnmatchedHoldsOthers ==
  ASSUME NEW rpu, cookie_list \in Seq(Entry), OnePerFrame(cookie_list)
  PROVE  HoldsOthers(Unmatched(rpu), rpu, Len(cookie_list))
<1> DEFINE N == Len(cookie_list)
           S == {n \in 0..N : HoldsOthers(Walked(rpu)[n], rpu, n)}
<1>1. N \in Nat /\ 0 \in 0..N /\ N \in 0..N
  BY LenProperties
<1>2. 0 \in S
  <2>1. <<>> \in Seq(Entry) /\ DOMAIN <<>> = {}
    BY EmptySeq
  <2>2. HoldsOthers(<<>>, rpu, 0)
    BY <2>1 DEF HoldsOthers, OnePerFrame
  <2> QED BY <1>1, <2>2, WalkedEquations
<1>3. ASSUME NEW n \in 1..N, n - 1 \in S PROVE n \in S
  <2>1. HoldsOthers(Walked(rpu)[n - 1], rpu, n - 1)
    BY <1>3
  <2>2. HoldsOthers(WalkStep(rpu, Walked(rpu)[n - 1], n), rpu, n)
    BY <2>1, WalkStepHoldsOthers
  <2>3. n \in 0..N
    BY <1>1
  <2> QED BY <2>2, <2>3, WalkedEquations
<1>4. N \in S
  <2> HIDE DEF S
  <2> QED BY <1>1, <1>2, <1>3, InductionUpTo
<1> QED BY <1>4 DEF Unmatched

-----------------------------------------------------------------------------
(* Queues: what Append and Tail do to the elements and their order *)

\* An element that is appended is the last one, and new.
LEMMA AppendToQueue ==
  ASSUME NEW T, NEW s \in Seq(T), NEW e \in T
  PROVE  /\ Append(s, e) \in Seq(T)
         /\ Range(Append(s, e)) = Range(s) \union {e}
         /\ IsInjective(s) /\ e \notin Range(s) => IsInjective(Append(s, e))
         /\ \A a, b : /\ Before(s, a, b) /\ a # b
                      /\ e = a => b \notin Range(s)
                      => Before(Append(s, e), a, b)
<1> DEFINE q == Append(s, e)
           L == Len(s)
<1>1. L \in Nat /\ DOMAIN s = 1..L
  BY LenProperties
<1>2. q \in Seq(T) /\ Len(q) = L + 1 /\ q[L + 1] = e /\ \A i \in 1..L : q[i] = s[i]
  BY AppendProperties
<1>3. DOMAIN q = 1..(L + 1)
  BY <1>2, LenProperties
<1>4. \A i \in DOMAIN q : i = L + 1 \/ i \in DOMAIN s
  BY <1>1, <1>3
<1>5. \A i \in DOMAIN s : i \in DOMAIN q /\ i < L + 1 /\ i # L + 1 /\ q[i] = s[i]
  BY <1>1, <1>2, <1>3
<1>6. L + 1 \in DOMAIN q
  BY <1>1, <1>3
<1> HIDE DEF q, L
<1>7. Range(q) = Range(s) \union {e}
  <2>1. ASSUME NEW x \in Range(q) PROVE x \in Range(s) \union {e}
    BY <1>2, <1>4, <1>5 DEF Range
  <2>2. ASSUME NEW x \in Range(s) PROVE x \in Range(q)
    BY <1>5 DEF Range
  <2>3. e \in Range(q)
    BY <1>2, <1>6 DEF Range
  <2> QED BY <2>1, <2>2, <2>3
<1>8. ASSUME IsInjective(s), e \notin Range(s) PROVE IsInjective(q)
  <2> SUFFICES ASSUME NEW i \in DOMAIN q, NEW j \in DOMAIN q, q[i] = q[j]
               PROVE  i = j
    BY DEF IsInjective
  <2>1. \A k \in DOMAIN s : q[k] # e
    BY <1>5, <1>8 DEF Range
  <2>2. CASE i \in DOMAIN s /\ j \in DOMAIN s
    BY <1>5, <1>8, <2>2 DEF IsInjective
  <2> QED BY <1>2, <1>4, <2>1, <2>2
<1>9. ASSUME NEW a, NEW b, Before(s, a, b), a # b, e = a => b \notin Range(s)
      PROVE  Before(q, a, b)
  <2> SUFFICES ASSUME NEW i \in DOMAIN q, NEW j \in DOMAIN q, q[i] = a, q[j] = b
               PROVE  i < j
    BY DEF Before
  <2>1. CASE i \in DOMAIN s /\ j \in DOMAIN s
    BY <1>5, <1>9, <2>1 DEF Before
  <2>2. CASE i \in DOMAIN s /\ j = L + 1
    BY <1>5, <2>2
  <2>3. ~(i = L + 1 /\ j \in DOMAIN s)
    BY <1>2, <1>5, <1>9 DEF Range
  <2>4. ~(i = L + 1 /\ j = L + 1)
    BY <1>2, <1>9
  <2> QED BY <1>4, <2>1, <2>2, <2>3, <2>4
<1> QED BY <1>2, <1>7, <1>8, <1>9 DEF q

\* The head leaves a queue without duplicates for good, and what is ordered
\* stays so. Nothing that must come before the head is left.
LEMMA TailOfQueue ==
  ASSUME NEW T, NEW s \in Seq(T), s # <<>>, IsInjective(s)
  PROVE  /\ Head(s) \in T /\ Head(s) \in Range(s) /\ Tail(s) \in Seq(T)
         /\ Range(Tail(s)) = Range(s) \ {Head(s)}
         /\ IsInjective(Tail(s))
         /\ \A a, b : Before(s, a, b) => Before(Tail(s), a, b)
         /\ \A a, b : Before(s, a, b) /\ Head(s) = b => a \notin Range(s)
<1> DEFINE q == Tail(s)
           L == Len(s)
<1>1. L \in Nat /\ L # 0 /\ DOMAIN s = 1..L
  BY LenProperties, EmptySeq
<1>2. /\ Head(s) \in T /\ q \in Seq(T) /\ Len(q) = L - 1
      /\ \A i \in 1..(L - 1) : q[i] = s[i + 1]
  BY HeadTailProperties
<1>3. DOMAIN q = 1..(L - 1) /\ Head(s) = s[1]
  BY <1>2, LenProperties
<1>4. \A i \in DOMAIN q : i \in Int /\ i + 1 \in DOMAIN s /\ q[i] = s[i + 1] /\ i + 1 # 1
  BY <1>1, <1>2, <1>3
<1>5. \A i \in DOMAIN s : i = 1 \/ (i - 1 \in DOMAIN q /\ q[i - 1] = s[i])
  BY <1>1, <1>2, <1>3
<1>6. 1 \in DOMAIN s
  BY <1>1
<1>7. \A i \in DOMAIN s : i \in Int /\ ~(i < 1)
  BY <1>1
<1> HIDE DEF q, L
<1>8. Range(q) = Range(s) \ {Head(s)}
  <2>1. ASSUME NEW i \in DOMAIN q PROVE q[i] \in Range(s) /\ q[i] # Head(s)
    BY <1>3, <1>4, <1>6 DEF Range, IsInjective
  <2>2. ASSUME NEW i \in DOMAIN s, s[i] # Head(s) PROVE s[i] \in Range(q)
    BY <1>3, <1>5, <2>2 DEF Range
  <2> QED BY <2>1, <2>2 DEF Range
<1>9. IsInjective(q)
  <2> SUFFICES ASSUME NEW i \in DOMAIN q, NEW j \in DOMAIN q, q[i] = q[j]
               PROVE  i = j
    BY DEF IsInjective
  <2>1. i + 1 = j + 1
    BY <1>4 DEF IsInjective
  <2> QED BY <1>4, <2>1
<1>10. ASSUME NEW a, NEW b, Before(s, a, b) PROVE Before(q, a, b)
  <2> SUFFICES ASSUME NEW i \in DOMAIN q, NEW j \in DOMAIN q, q[i] = a, q[j] = b
               PROVE  i < j
    BY DEF Before
  <2>1. i + 1 < j + 1
    BY <1>4, <1>10 DEF Before
  <2> QED BY <1>4, <2>1
<1>11. ASSUME NEW a, NEW b, Before(s, a, b), Head(s) = b PROVE a \notin Range(s)
  BY <1>3, <1>6, <1>7, <1>11 DEF Before, Range
<1>12. Head(s) \in Range(s)
  BY <1>3, <1>6 DEF Range
<1> QED BY <1>2, <1>8, <1>9, <1>10, <1>11, <1>12 DEF q

-----------------------------------------------------------------------------
(* What the steps do to the places of a frame *)

\* The events of a frame, as members of the queue.
LEMMA EventsOfFrame ==
  /\ \A f : OnItsWay("cookie_rsp", f) <=> Rsp(f) \in Range(events)
  /\ \A f : OnItsWay("tx_status", f) <=> Stat(f) \in Range(events)
  /\ \A f \in Frames : Rsp(f) \in Event /\ Stat(f) \in Event
  /\ \A f, g : /\ Rsp(f) = Rsp(g) <=> f = g
               /\ Stat(f) = Stat(g) <=> f = g
               /\ Rsp(f) # Stat(g)
BY DEF OnItsWay, Rsp, Stat, Range, Event

\* An event is one of the two, about the frame it names.
LEMMA EventIsOfFrame ==
  ASSUME NEW e \in Event
  PROVE  /\ e.frame \in Frames
         /\ e.type = "cookie_rsp" => e = Rsp(e.frame)
         /\ e.type = "tx_status" => e = Stat(e.frame)
BY DEF Rsp, Stat, Event

\* The counter never becomes 0.
LEMMA NextCookieType ==
  ASSUME NEW c \in 0..(CookieMod - 1)
  PROVE  NextCookie(c) \in 1..(CookieMod - 1)
<1>1. CookieMod \in Nat /\ CookieMod > 1
  BY CookieAssumption
<1>2. (c + 1) % CookieMod \in 0..(CookieMod - 1)
  BY <1>1
<1>3. CASE c + 1 = CookieMod
  <2>1. (c + 1) % CookieMod = 0 /\ (0 + 1) % CookieMod = 1
    BY <1>1, <1>3
  <2> QED BY <1>1, <2>1 DEF NextCookie
<1>4. CASE c + 1 # CookieMod
  <2>1. (c + 1) % CookieMod = c + 1
    BY <1>1, <1>4
  <2> QED BY <1>1, <1>4, <2>1 DEF NextCookie
<1> QED BY <1>3, <1>4

\* The handled event leaves the queue.
LEMMA HandleEffect ==
  ASSUME TypeOK, OrderInv, NEW type \in {"cookie_rsp", "tx_status"}, Handle(type)
  PROVE  LET f == Head(events).frame IN
         /\ f \in Frames
         /\ Head(events) = IF type = "cookie_rsp" THEN Rsp(f) ELSE Stat(f)
         /\ events' \in Seq(Event) /\ IsInjective(events')
         /\ \A g \in Frames : Before(events', Rsp(g), Stat(g))
         /\ OnItsWay(type, f)
         /\ type = "tx_status" => ~OnItsWay("cookie_rsp", f)
         /\ \A g : /\ OnItsWay("cookie_rsp", g)' <=>
                        OnItsWay("cookie_rsp", g) /\ ~(type = "cookie_rsp" /\ g = f)
                   /\ OnItsWay("tx_status", g)' <=>
                        OnItsWay("tx_status", g) /\ ~(type = "tx_status" /\ g = f)
<1> DEFINE h == Head(events)
           f == h.frame
<1>1. events \in Seq(Event) /\ events # <<>> /\ IsInjective(events) /\ events' = Tail(events)
      /\ h.type = type
  BY DEF TypeOK, OrderInv, Handle
<1>2. /\ h \in Event /\ h \in Range(events) /\ events' \in Seq(Event)
      /\ Range(events') = Range(events) \ {h}
      /\ IsInjective(events')
      /\ \A a, b : Before(events, a, b) => Before(events', a, b)
      /\ \A a, b : Before(events, a, b) /\ h = b => a \notin Range(events)
  BY <1>1, TailOfQueue
<1>3. f \in Frames /\ h = IF type = "cookie_rsp" THEN Rsp(f) ELSE Stat(f)
  BY <1>1, <1>2, EventIsOfFrame
<1>4. \A g \in Frames : Before(events', Rsp(g), Stat(g))
  BY <1>2 DEF OrderInv
<1>5. OnItsWay(type, f)
  BY <1>2, <1>3, EventsOfFrame
<1>6. type = "tx_status" => ~OnItsWay("cookie_rsp", f)
  BY <1>2, <1>3, EventsOfFrame DEF OrderInv
<1>7. /\ \A g : OnItsWay("cookie_rsp", g)' <=> Rsp(g) \in Range(events')
      /\ \A g : OnItsWay("tx_status", g)' <=> Stat(g) \in Range(events')
  BY DEF OnItsWay, Rsp, Stat, Range
<1> HIDE DEF h, f
<1>8. ASSUME NEW g
      PROVE  /\ OnItsWay("cookie_rsp", g)' <=>
                  OnItsWay("cookie_rsp", g) /\ ~(type = "cookie_rsp" /\ g = f)
             /\ OnItsWay("tx_status", g)' <=>
                  OnItsWay("tx_status", g) /\ ~(type = "tx_status" /\ g = f)
  <2>1. CASE type = "cookie_rsp"
    <3>1. h = Rsp(f) /\ type # "tx_status"
      BY <1>3, <2>1
    <3> QED BY <1>2, <1>7, <2>1, <3>1, EventsOfFrame
  <2>2. CASE type = "tx_status"
    <3>1. h = Stat(f) /\ type # "cookie_rsp"
      BY <1>3, <2>2
    <3> QED BY <1>2, <1>7, <2>2, <3>1, EventsOfFrame
  <2> QED BY <2>1, <2>2
<1> QED BY <1>2, <1>3, <1>4, <1>5, <1>6, <1>8 DEF f, h

\* A new event is the last of the queue.
LEMMA RaiseEffect ==
  ASSUME TypeOK, OrderInv, NEW f \in Frames, NEW e \in {Rsp(f), Stat(f)},
         events' = Append(events, e), e \notin Range(events),
         e = Rsp(f) => ~OnItsWay("tx_status", f)
  PROVE  /\ events' \in Seq(Event) /\ IsInjective(events')
         /\ \A g \in Frames : Before(events', Rsp(g), Stat(g))
         /\ \A g : /\ OnItsWay("cookie_rsp", g)' <=>
                        OnItsWay("cookie_rsp", g) \/ (e = Rsp(f) /\ g = f)
                   /\ OnItsWay("tx_status", g)' <=>
                        OnItsWay("tx_status", g) \/ (e = Stat(f) /\ g = f)
<1>1. events \in Seq(Event) /\ e \in Event /\ IsInjective(events)
  BY EventsOfFrame DEF TypeOK, OrderInv
<1>2. /\ events' \in Seq(Event)
      /\ Range(events') = Range(events) \union {e}
      /\ IsInjective(events')
      /\ \A a, b : /\ Before(events, a, b) /\ a # b
                   /\ e = a => b \notin Range(events)
                   => Before(events', a, b)
  BY <1>1, AppendToQueue
<1>3. ASSUME NEW g \in Frames PROVE Before(events', Rsp(g), Stat(g))
  <2>1. Before(events, Rsp(g), Stat(g)) /\ Rsp(g) # Stat(g)
    BY EventsOfFrame DEF OrderInv
  <2>2. e = Rsp(g) => Stat(g) \notin Range(events)
    BY EventsOfFrame
  <2> QED BY <1>2, <2>1, <2>2
<1>4. /\ \A g : OnItsWay("cookie_rsp", g)' <=> Rsp(g) \in Range(events')
      /\ \A g : OnItsWay("tx_status", g)' <=> Stat(g) \in Range(events')
  BY DEF OnItsWay, Rsp, Stat, Range
<1>5. ASSUME NEW g
      PROVE  /\ OnItsWay("cookie_rsp", g)' <=>
                  OnItsWay("cookie_rsp", g) \/ (e = Rsp(f) /\ g = f)
             /\ OnItsWay("tx_status", g)' <=>
                  OnItsWay("tx_status", g) \/ (e = Stat(f) /\ g = f)
  BY <1>2, <1>4, EventsOfFrame
<1> QED BY <1>2, <1>3, <1>5

\* What is not changed reads the same.
LEMMA SameEvents ==
  ASSUME events' = events
  PROVE  \A g : /\ OnItsWay("cookie_rsp", g)' <=> OnItsWay("cookie_rsp", g)
                /\ OnItsWay("tx_status", g)' <=> OnItsWay("tx_status", g)
BY DEF OnItsWay

LEMMA SameList ==
  ASSUME cookie_list' = cookie_list
  PROVE  \A g : Listed(g)' <=> Listed(g)
BY DEF Listed

\* A pair names a frame that was handed over.
LEMMA ListedWasSent ==
  ASSUME IInv, NEW i \in DOMAIN cookie_list
  PROVE  cookie_list[i].rpu_cookie \in Frames /\ cookie_list[i].rpu_cookie \in DOMAIN host
<1>1. cookie_list \in Seq(Entry) /\ host \in Seq(0..(CookieMod - 1))
  BY DEF IInv, TypeOK
<1>2. cookie_list[i] \in Entry
  BY <1>1, ElementOfSeq, LenProperties
<1>3. cookie_list[i].rpu_cookie \in Frames
  BY <1>2 DEF Entry
<1>4. ~(cookie_list[i].rpu_cookie > Len(host))
  BY <1>3 DEF IInv, PlaceInv, Unheard, Listed
<1>5. Len(host) \in Nat /\ DOMAIN host = 1..Len(host)
  BY <1>1, LenProperties
<1> QED BY <1>3, <1>4, <1>5 DEF Frames

\* MgmtTx preserves the invariant: a new frame is unheard of, and the cookies
\* of the others stay.
LEMMA MgmtTxStep ==
  ASSUME IInv, MgmtTx
  PROVE  IInv'
<1> DEFINE c == NextCookie(cmd_frame_cookie_g)
           n == Len(host) + 1
<1>1. /\ cmd_frame_cookie_g' = c /\ host' = Append(host, c)
      /\ accepting' = Append(accepting, n) /\ Len(host) < MaxFrames
      /\ refused' = refused /\ events' = events /\ sending' = sending
      /\ cookie_list' = cookie_list /\ dropped' = dropped /\ status' = status
  BY DEF MgmtTx
<1>2. TypeOK /\ CookieMod \in Nat /\ CookieMod > 1 /\ MaxFrames \in Nat
  BY CookieAssumption DEF IInv
<1>3. c \in 1..(CookieMod - 1) /\ c \in 0..(CookieMod - 1) /\ c # 0
  <2>1. c \in 1..(CookieMod - 1)
    BY <1>2, NextCookieType DEF TypeOK
  <2> HIDE DEF c
  <2> QED BY <1>2, <2>1
<1>4. Len(host) \in Nat /\ DOMAIN host = 1..Len(host)
  BY <1>2, LenProperties DEF TypeOK
<1>5. n \in Frames
  BY <1>1, <1>2, <1>4 DEF Frames
<1> HIDE DEF c, n
<1>6. /\ host' \in Seq(0..(CookieMod - 1)) /\ Len(host') = Len(host) + 1
      /\ \A f \in DOMAIN host : host'[f] = host[f]
      /\ host'[Len(host) + 1] = c
  BY <1>1, <1>2, <1>3, <1>4, AppendProperties DEF TypeOK
<1>7. DOMAIN host' = 1..(Len(host) + 1)
  BY <1>6, LenProperties
<1>8. n > Len(host) /\ Unheard(n) /\ ~Waiting(n)
  <2>1. n > Len(host)
    BY <1>4 DEF n
  <2> QED BY <1>5, <2>1 DEF IInv, PlaceInv
<1>9. /\ accepting' \in Seq(Frames) /\ IsInjective(accepting')
      /\ Range(accepting') = Range(accepting) \union {n}
  BY <1>1, <1>2, <1>5, <1>8, AppendToQueue DEF TypeOK, IInv, OrderInv, Waiting
<1>10. TypeOK'
  BY <1>1, <1>2, <1>3, <1>6, <1>9 DEF TypeOK
<1>11. HostInv'
  <2>1. \A f \in DOMAIN host' : f \in DOMAIN host \/ f = Len(host) + 1
    BY <1>4, <1>7
  <2>2. Len(host') <= MaxFrames
    BY <1>1, <1>2, <1>4, <1>6
  <2> QED BY <1>3, <1>6, <2>1, <2>2 DEF HostInv, IInv
<1>12. PlaceInv'
  <2> SUFFICES ASSUME NEW f \in Frames
               PROVE  /\ Waiting(f)' => Unheard(f)'
                      /\ f > Len(host') => Unheard(f)' /\ ~Waiting(f)'
                      /\ f \in sending' => ~OnItsWay("tx_status", f)' /\ status'[f] = NoStatus
                      /\ OnItsWay("tx_status", f)' => status'[f] = NoStatus
                      /\ OnItsWay("cookie_rsp", f)' =>
                           f \notin dropped' /\ (f \in sending' \/ OnItsWay("tx_status", f)')
    BY DEF PlaceInv
  <2>1. Unheard(f)' <=> Unheard(f)
    BY <1>1, SameEvents, SameList DEF Unheard
  <2>2. Waiting(f)' <=> Waiting(f) \/ f = n
    BY <1>9 DEF Waiting
  <2>3. f > Len(host') => f > Len(host) /\ f # n
    BY <1>4, <1>6 DEF Frames, n
  <2>4. /\ Waiting(f) => Unheard(f)
        /\ f > Len(host) => Unheard(f) /\ ~Waiting(f)
        /\ f \in sending => ~OnItsWay("tx_status", f) /\ status[f] = NoStatus
        /\ OnItsWay("tx_status", f) => status[f] = NoStatus
        /\ OnItsWay("cookie_rsp", f) =>
             f \notin dropped /\ (f \in sending \/ OnItsWay("tx_status", f))
    BY DEF IInv, PlaceInv
  <2> QED BY <1>1, <1>8, <2>1, <2>2, <2>3, <2>4, SameEvents
<1>13. OrderInv'
  BY <1>1, <1>9 DEF OrderInv, IInv
<1>14. PairInv'
  <2>1. \A i \in DOMAIN cookie_list :
           cookie_list[i].host_cookie = host'[cookie_list[i].rpu_cookie]
    BY <1>6, ListedWasSent DEF IInv, PairInv
  <2> QED BY <1>1, <2>1, SameEvents, SameList DEF PairInv, IInv
<1>15. StatusReachesSender'
  <2> SUFFICES ASSUME NEW f \in Frames, status[f] # NoStatus
               PROVE  IF f \in dropped THEN status[f] = 0
                      ELSE status[f] = host'[f] /\ status[f] # 0
    BY <1>1 DEF StatusReachesSender
  <2>1. ~(f > Len(host))
    BY DEF IInv, PlaceInv, Unheard
  <2>2. f \in DOMAIN host
    BY <1>2, <1>4, <2>1 DEF Frames
  <2> QED BY <1>6, <2>2 DEF IInv, StatusReachesSender
<1> QED BY <1>10, <1>11, <1>12, <1>13, <1>14, <1>15 DEF IInv

\* MgmtTxFail preserves the invariant: a cookie is spent and nothing else.
LEMMA MgmtTxFailStep ==
  ASSUME IInv, MgmtTxFail
  PROVE  IInv'
<1>1. /\ cmd_frame_cookie_g' = NextCookie(cmd_frame_cookie_g)
      /\ refused' = refused + 1 /\ refused < MaxFail
      /\ host' = host /\ accepting' = accepting /\ events' = events
      /\ sending' = sending /\ cookie_list' = cookie_list /\ dropped' = dropped
      /\ status' = status
  BY DEF MgmtTxFail, fwVars
<1>2. TypeOK /\ CookieMod \in Nat /\ MaxFail \in Nat
  BY CookieAssumption DEF IInv
<1>3. cmd_frame_cookie_g' \in 0..(CookieMod - 1)
  BY <1>1, <1>2, NextCookieType DEF TypeOK
<1>4. refused' \in 0..MaxFail
  BY <1>1, <1>2 DEF TypeOK
<1>5. TypeOK'
  BY <1>1, <1>2, <1>3, <1>4 DEF TypeOK
<1>6. PlaceInv'
  BY <1>1, SameEvents, SameList DEF IInv, PlaceInv, Unheard, Waiting
<1>7. PairInv'
  BY <1>1, SameEvents, SameList DEF IInv, PairInv
<1> QED BY <1>1, <1>5, <1>6, <1>7 DEF IInv, HostInv, OrderInv, StatusReachesSender

\* FwCookieRsp preserves the invariant: the frame goes from accepting to
\* sending, and its cookie response is on its way.
LEMMA FwCookieRspStep ==
  ASSUME IInv, FwCookieRsp
  PROVE  IInv'
<1> DEFINE f == Head(accepting)
<1>1. /\ accepting # <<>> /\ events' = Append(events, Rsp(f))
      /\ sending' = sending \union {f} /\ accepting' = Tail(accepting)
      /\ cmd_frame_cookie_g' = cmd_frame_cookie_g /\ host' = host
      /\ refused' = refused /\ cookie_list' = cookie_list /\ dropped' = dropped
      /\ status' = status
  BY DEF FwCookieRsp, Rsp
<1>2. TypeOK /\ OrderInv
  BY DEF IInv
<1>3. /\ f \in Frames /\ Waiting(f) /\ accepting' \in Seq(Frames)
      /\ IsInjective(accepting')
      /\ \A g : Waiting(g)' <=> Waiting(g) /\ g # f
  BY <1>1, <1>2, TailOfQueue DEF TypeOK, OrderInv, Waiting
<1> HIDE DEF f
<1>4. Unheard(f)
  BY <1>3 DEF IInv, PlaceInv
<1>5. Rsp(f) \notin Range(events) /\ ~OnItsWay("tx_status", f)
  BY <1>4, EventsOfFrame DEF Unheard
<1>6. /\ events' \in Seq(Event) /\ IsInjective(events')
      /\ \A g \in Frames : Before(events', Rsp(g), Stat(g))
      /\ \A g : /\ OnItsWay("cookie_rsp", g)' <=> OnItsWay("cookie_rsp", g) \/ g = f
                /\ OnItsWay("tx_status", g)' <=> OnItsWay("tx_status", g)
  <2>1. Rsp(f) # Stat(f)
    BY EventsOfFrame
  <2> QED BY <1>1, <1>2, <1>3, <1>5, <2>1, RaiseEffect
<1>7. TypeOK'
  BY <1>1, <1>2, <1>3, <1>6 DEF TypeOK
<1>8. ~(f > Len(host))
  BY <1>3 DEF IInv, PlaceInv
<1>9. PlaceInv'
  BY <1>1, <1>3, <1>4, <1>6, <1>8, SameList DEF IInv, PlaceInv, Unheard
<1>10. OrderInv'
  BY <1>3, <1>6 DEF OrderInv
<1>11. PairInv'
  BY <1>1, <1>3, <1>4, <1>6, SameList DEF IInv, PairInv, Unheard
<1> QED BY <1>1, <1>7, <1>9, <1>10, <1>11 DEF IInv, HostInv, StatusReachesSender

\* FwTxStatus preserves the invariant: the frame is sent and its status is on
\* its way, behind its cookie response if that still is.
LEMMA FwTxStatusStep ==
  ASSUME IInv, NEW f \in Frames, FwTxStatus(f)
  PROVE  IInv'
<1>1. /\ f \in sending /\ events' = Append(events, Stat(f))
      /\ sending' = sending \ {f} /\ accepting' = accepting
      /\ cmd_frame_cookie_g' = cmd_frame_cookie_g /\ host' = host
      /\ refused' = refused /\ cookie_list' = cookie_list /\ dropped' = dropped
      /\ status' = status
  BY DEF FwTxStatus, Stat
<1>2. TypeOK /\ OrderInv
  BY DEF IInv
<1>3. /\ ~OnItsWay("tx_status", f) /\ status[f] = NoStatus
      /\ ~Waiting(f) /\ ~(f > Len(host))
  BY <1>1 DEF IInv, PlaceInv, Unheard
<1>4. Stat(f) \notin Range(events)
  BY <1>3, EventsOfFrame
<1>5. /\ events' \in Seq(Event) /\ IsInjective(events')
      /\ \A g \in Frames : Before(events', Rsp(g), Stat(g))
      /\ \A g : /\ OnItsWay("cookie_rsp", g)' <=> OnItsWay("cookie_rsp", g)
                /\ OnItsWay("tx_status", g)' <=> OnItsWay("tx_status", g) \/ g = f
  <2>1. Rsp(f) # Stat(f)
    BY EventsOfFrame
  <2> QED BY <1>1, <1>2, <1>4, <2>1, RaiseEffect
<1>6. TypeOK'
  BY <1>1, <1>2, <1>5 DEF TypeOK
<1>7. PlaceInv'
  BY <1>1, <1>3, <1>5, SameList DEF IInv, PlaceInv, Unheard, Waiting
<1>8. OrderInv'
  BY <1>1, <1>2, <1>5 DEF OrderInv
<1>9. PairInv'
  BY <1>1, <1>5, SameList DEF IInv, PairInv
<1> QED BY <1>1, <1>6, <1>7, <1>8, <1>9 DEF IInv, HostInv, StatusReachesSender

\* The pair list_add puts in front of the list l.
LEMMA ListAdd ==
  ASSUME NEW l \in Seq(Entry), NEW p \in Entry
  PROVE  LET q == <<p>> \o l IN
         /\ q \in Seq(Entry)
         /\ 1 \in DOMAIN q /\ q[1] = p
         /\ \A i \in DOMAIN l : i \in Int /\ i + 1 \in DOMAIN q /\ q[i + 1] = l[i]
         /\ \A i \in DOMAIN q : i = 1 \/ (i \in Int /\ i - 1 \in DOMAIN l /\ q[i] = l[i - 1])
<1> DEFINE q == <<p>> \o l
           L == Len(l)
<1>1. L \in Nat /\ DOMAIN l = 1..L
  BY LenProperties
<1>2. <<p>> \in Seq(Entry) /\ Len(<<p>>) = 1 /\ <<p>>[1] = p
  OBVIOUS
<1>3. /\ q \in Seq(Entry) /\ Len(q) = 1 + L
      /\ \A i \in 1..(1 + L) : q[i] = IF i <= 1 THEN <<p>>[i] ELSE l[i - 1]
  BY <1>1, <1>2, ConcatProperties
<1>4. DOMAIN q = 1..(1 + L)
  BY <1>3, LenProperties
<1> HIDE DEF q
<1>5. 1 \in DOMAIN q /\ q[1] = p
  BY <1>1, <1>2, <1>3, <1>4
<1>6. ASSUME NEW i \in DOMAIN l
      PROVE  i \in Int /\ i + 1 \in DOMAIN q /\ q[i + 1] = l[i]
  BY <1>1, <1>3, <1>4
<1>7. ASSUME NEW i \in DOMAIN q, i # 1
      PROVE  i \in Int /\ i - 1 \in DOMAIN l /\ q[i] = l[i - 1]
  BY <1>1, <1>3, <1>4, <1>7
<1> QED BY <1>3, <1>5, <1>6, <1>7 DEF q

\* A frame whose number is not above the last was given a cookie.
LEMMA SentHasCookie ==
  ASSUME IInv, NEW f \in Frames, ~(f > Len(host))
  PROVE  f \in DOMAIN host /\ host[f] \in 0..(CookieMod - 1) /\ host[f] # 0
<1>1. host \in Seq(0..(CookieMod - 1))
  BY DEF IInv, TypeOK
<1>2. Len(host) \in Nat /\ DOMAIN host = 1..Len(host)
  BY <1>1, LenProperties
<1>3. f \in 1..Len(host)
  BY <1>2 DEF Frames
<1> QED BY <1>1, <1>2, <1>3, ElementOfSeq DEF IInv, HostInv

\* The cookie response handled is about a frame that was handed over, is not
\* listed yet and has no status yet.
LEMMA RspHandled ==
  ASSUME IInv, Handle("cookie_rsp")
  PROVE  LET f == Head(events).frame IN
         /\ f \in Frames /\ f \in DOMAIN host /\ host[f] \in 0..(CookieMod - 1)
         /\ f \in sending \/ OnItsWay("tx_status", f)
         /\ f \notin dropped /\ status[f] = NoStatus /\ ~Waiting(f) /\ ~Listed(f)
         /\ ~(f > Len(host))
<1> DEFINE f == Head(events).frame
<1>1. f \in Frames /\ OnItsWay("cookie_rsp", f)
  BY HandleEffect DEF IInv
<1> HIDE DEF f
<1>2. f \notin dropped
  BY <1>1 DEF IInv, PlaceInv
<1>3. f \in sending \/ OnItsWay("tx_status", f)
  BY <1>1 DEF IInv, PlaceInv
<1>4. status[f] = NoStatus
  BY <1>1, <1>3 DEF IInv, PlaceInv
<1>5. ~Waiting(f) /\ ~(f > Len(host))
  BY <1>1 DEF IInv, PlaceInv, Unheard
<1>6. ~Listed(f)
  BY <1>1 DEF IInv, PairInv
<1>7. f \in DOMAIN host /\ host[f] \in 0..(CookieMod - 1)
  BY <1>1, <1>5, SentHasCookie
<1> QED BY <1>1, <1>2, <1>3, <1>4, <1>5, <1>6, <1>7 DEF f

\* CookieRsp preserves the invariant: the frame's first and only pair is added.
LEMMA CookieRspStep ==
  ASSUME IInv, CookieRsp
  PROVE  IInv'
<1> DEFINE f == Head(events).frame
           p == [host_cookie |-> host[f], rpu_cookie |-> f]
<1>1. /\ Handle("cookie_rsp") /\ cookie_list' = <<p>> \o cookie_list
      /\ cmd_frame_cookie_g' = cmd_frame_cookie_g /\ host' = host
      /\ refused' = refused /\ sending' = sending /\ accepting' = accepting
      /\ dropped' = dropped /\ status' = status
  BY DEF CookieRsp
<1>2. TypeOK /\ OrderInv
  BY DEF IInv
<1>3. /\ f \in Frames /\ OnItsWay("cookie_rsp", f)
      /\ events' \in Seq(Event) /\ IsInjective(events')
      /\ \A g \in Frames : Before(events', Rsp(g), Stat(g))
      /\ \A g : /\ OnItsWay("cookie_rsp", g)' <=> OnItsWay("cookie_rsp", g) /\ g # f
                /\ OnItsWay("tx_status", g)' <=> OnItsWay("tx_status", g)
  BY <1>1, <1>2, HandleEffect
<1> HIDE DEF f
<1>4. /\ f \notin dropped
      /\ f \in sending \/ OnItsWay("tx_status", f)
      /\ status[f] = NoStatus /\ ~Waiting(f) /\ ~(f > Len(host)) /\ ~Listed(f)
      /\ host[f] \in 0..(CookieMod - 1)
  BY <1>1, RspHandled DEF f
<1>6. p \in Entry /\ p.host_cookie = host[f] /\ p.rpu_cookie = f
  BY <1>3, <1>4 DEF Entry
<1> HIDE DEF p
<1>7. /\ cookie_list' \in Seq(Entry)
      /\ 1 \in DOMAIN cookie_list' /\ cookie_list'[1] = p
      /\ \A i \in DOMAIN cookie_list :
            i \in Int /\ i + 1 \in DOMAIN cookie_list' /\ cookie_list'[i + 1] = cookie_list[i]
      /\ \A i \in DOMAIN cookie_list' :
            i = 1 \/ (i \in Int /\ i - 1 \in DOMAIN cookie_list /\ cookie_list'[i] = cookie_list[i - 1])
  BY <1>1, <1>2, <1>6, ListAdd DEF TypeOK
<1>8. \A g : Listed(g)' <=> Listed(g) \/ g = f
  BY <1>6, <1>7 DEF Listed
<1>9. TypeOK'
  BY <1>1, <1>2, <1>3, <1>7 DEF TypeOK
<1>10. PlaceInv'
  BY <1>1, <1>3, <1>4, <1>8 DEF IInv, PlaceInv, Unheard, Waiting
<1>11. OrderInv'
  BY <1>1, <1>2, <1>3 DEF OrderInv
<1>12. OnePerFrame(cookie_list)'
  <2> SUFFICES ASSUME NEW i \in DOMAIN cookie_list', NEW j \in DOMAIN cookie_list',
                      cookie_list'[i].rpu_cookie = cookie_list'[j].rpu_cookie
               PROVE  i = j
    BY DEF OnePerFrame
  <2>1. \A k \in DOMAIN cookie_list' : k # 1 => cookie_list'[k].rpu_cookie # f
    BY <1>4, <1>7 DEF Listed
  <2>2. CASE i = 1 \/ j = 1
    BY <1>6, <1>7, <2>1, <2>2
  <2>3. CASE i # 1 /\ j # 1
    <3>1. /\ i - 1 \in DOMAIN cookie_list /\ j - 1 \in DOMAIN cookie_list
          /\ cookie_list[i - 1].rpu_cookie = cookie_list[j - 1].rpu_cookie
      BY <1>7, <2>3
    <3>2. i - 1 = j - 1
      BY <3>1 DEF IInv, PairInv, OnePerFrame
    <3> QED BY <1>7, <2>3, <3>2
  <2> QED BY <2>2, <2>3
<1>13. \A i \in DOMAIN cookie_list' :
          cookie_list'[i].host_cookie = host'[cookie_list'[i].rpu_cookie]
  BY <1>1, <1>6, <1>7 DEF IInv, PairInv
<1>14. \A g \in Frames :
          Listed(g)' <=> /\ g \in sending' \/ OnItsWay("tx_status", g)'
                         /\ ~OnItsWay("cookie_rsp", g)' /\ g \notin dropped'
  BY <1>1, <1>3, <1>4, <1>8 DEF IInv, PairInv
<1>15. PairInv'
  BY <1>12, <1>13, <1>14 DEF PairInv
<1> QED BY <1>1, <1>9, <1>10, <1>11, <1>15 DEF IInv, HostInv, StatusReachesSender

\* CookieRspNoMemory preserves the invariant: the frame, not reported yet,
\* will be with cookie 0.
LEMMA CookieRspNoMemoryStep ==
  ASSUME IInv, CookieRspNoMemory
  PROVE  IInv'
<1> DEFINE f == Head(events).frame
<1>1. /\ Handle("cookie_rsp") /\ dropped' = dropped \union {f}
      /\ cmd_frame_cookie_g' = cmd_frame_cookie_g /\ host' = host
      /\ refused' = refused /\ sending' = sending /\ accepting' = accepting
      /\ cookie_list' = cookie_list /\ status' = status
  BY DEF CookieRspNoMemory
<1>2. TypeOK /\ OrderInv
  BY DEF IInv
<1>3. /\ f \in Frames /\ OnItsWay("cookie_rsp", f)
      /\ events' \in Seq(Event) /\ IsInjective(events')
      /\ \A g \in Frames : Before(events', Rsp(g), Stat(g))
      /\ \A g : /\ OnItsWay("cookie_rsp", g)' <=> OnItsWay("cookie_rsp", g) /\ g # f
                /\ OnItsWay("tx_status", g)' <=> OnItsWay("tx_status", g)
  BY <1>1, <1>2, HandleEffect
<1> HIDE DEF f
<1>5. status[f] = NoStatus /\ ~Waiting(f) /\ ~(f > Len(host)) /\ ~Listed(f)
  BY <1>1, RspHandled DEF f
<1>6. TypeOK'
  BY <1>1, <1>2, <1>3 DEF TypeOK
<1>7. PlaceInv'
  BY <1>1, <1>3, <1>5, SameList DEF IInv, PlaceInv, Unheard, Waiting
<1>8. OrderInv'
  BY <1>1, <1>2, <1>3 DEF OrderInv
<1>9. PairInv'
  BY <1>1, <1>3, <1>5, SameList DEF IInv, PairInv
<1>10. StatusReachesSender'
  BY <1>1, <1>3, <1>5 DEF IInv, StatusReachesSender
<1> QED BY <1>1, <1>6, <1>7, <1>8, <1>9, <1>10 DEF IInv, HostInv

\* The loop finds the cookie of the frame's pair if there is one, and leaves
\* host_cookie 0 otherwise.
LEMMA FoundIsPair ==
  ASSUME NEW f, OnePerFrame(cookie_list)
  PROVE  /\ ~Listed(f) => Found(f) = 0
         /\ \A i \in DOMAIN cookie_list :
               cookie_list[i].rpu_cookie = f => Found(f) = cookie_list[i].host_cookie
<1> DEFINE pairs == {i \in DOMAIN cookie_list : cookie_list[i].rpu_cookie = f}
<1>1. Found(f) = IF pairs = {} THEN 0 ELSE cookie_list[Max(pairs)].host_cookie
  BY DEF Found
<1>2. ~Listed(f) => pairs = {}
  BY DEF Listed
<1>3. ASSUME NEW i \in DOMAIN cookie_list, cookie_list[i].rpu_cookie = f
      PROVE  pairs = {i} /\ Max({i}) = i
  <2>1. pairs = {i}
    BY <1>3 DEF OnePerFrame
  <2>2. i \in DOMAIN cookie_list
    OBVIOUS
  <2> QED BY <2>1 DEF Max
<1> HIDE DEF pairs
<1> QED BY <1>1, <1>2, <1>3

\* The status handled is about a frame that was handed over and has no status
\* yet, and its cookie is found unless its cookie response was lost.
LEMMA StatHandled ==
  ASSUME IInv, Handle("tx_status")
  PROVE  LET f == Head(events).frame IN
         /\ f \in Frames /\ f \in DOMAIN host /\ host[f] \in 0..(CookieMod - 1) /\ host[f] # 0
         /\ status[f] = NoStatus /\ f \notin sending /\ ~Waiting(f) /\ ~(f > Len(host))
         /\ Found(f) = IF f \in dropped THEN 0 ELSE host[f]
<1> DEFINE f == Head(events).frame
<1>1. f \in Frames /\ OnItsWay("tx_status", f) /\ ~OnItsWay("cookie_rsp", f)
  BY HandleEffect DEF IInv
<1> HIDE DEF f
<1>2. status[f] = NoStatus /\ f \notin sending
  BY <1>1 DEF IInv, PlaceInv
<1>3. ~Waiting(f) /\ ~(f > Len(host))
  BY <1>1 DEF IInv, PlaceInv, Unheard
<1>4. f \in DOMAIN host /\ host[f] \in 0..(CookieMod - 1) /\ host[f] # 0
  BY <1>1, <1>3, SentHasCookie
<1>5. Listed(f) <=> f \notin dropped
  BY <1>1 DEF IInv, PairInv
<1>6. OnePerFrame(cookie_list)
  BY DEF IInv, PairInv
<1>7. Found(f) = IF f \in dropped THEN 0 ELSE host[f]
  <2>1. CASE f \in dropped
    BY <1>5, <1>6, <2>1, FoundIsPair
  <2>2. CASE f \notin dropped
    <3>1. PICK i \in DOMAIN cookie_list : cookie_list[i].rpu_cookie = f
      BY <1>5, <2>2 DEF Listed
    <3>2. Found(f) = cookie_list[i].host_cookie
      BY <1>6, <3>1, FoundIsPair
    <3> QED BY <2>2, <3>1, <3>2 DEF IInv, PairInv
  <2> QED BY <2>1, <2>2
<1> QED BY <1>1, <1>2, <1>3, <1>4, <1>7 DEF f

\* TxStatus preserves the invariant: the frame's pair, if its cookie response
\* was not lost, is found, reported and removed, and the others are kept.
LEMMA TxStatusStep ==
  ASSUME IInv, TxStatus
  PROVE  IInv'
<1> DEFINE f == Head(events).frame
<1>1. /\ Handle("tx_status") /\ status' = [status EXCEPT ![f] = Found(f)]
      /\ cookie_list' = Unmatched(f)
      /\ cmd_frame_cookie_g' = cmd_frame_cookie_g /\ host' = host
      /\ refused' = refused /\ sending' = sending /\ accepting' = accepting
      /\ dropped' = dropped
  BY DEF TxStatus
<1>2. TypeOK /\ OrderInv /\ OnePerFrame(cookie_list) /\ cookie_list \in Seq(Entry)
  BY DEF IInv, PairInv, TypeOK
<1>3. /\ f \in Frames /\ OnItsWay("tx_status", f) /\ ~OnItsWay("cookie_rsp", f)
      /\ events' \in Seq(Event) /\ IsInjective(events')
      /\ \A g \in Frames : Before(events', Rsp(g), Stat(g))
      /\ \A g : /\ OnItsWay("cookie_rsp", g)' <=> OnItsWay("cookie_rsp", g)
                /\ OnItsWay("tx_status", g)' <=> OnItsWay("tx_status", g) /\ g # f
  BY <1>1, <1>2, HandleEffect
<1> HIDE DEF f
<1>4. /\ f \notin sending /\ ~Waiting(f) /\ ~(f > Len(host))
      /\ host[f] \in 0..(CookieMod - 1) /\ host[f] # 0
      /\ Found(f) = IF f \in dropped THEN 0 ELSE host[f]
  BY <1>1, StatHandled DEF f
<1>6. HoldsOthers(cookie_list', f, Len(cookie_list))
  BY <1>1, <1>2, UnmatchedHoldsOthers
<1>7. DOMAIN cookie_list = 1..Len(cookie_list)
  BY <1>2, LenProperties
<1>8. \A g : Listed(g)' <=> Listed(g) /\ g # f
  <2>1. ASSUME NEW g, Listed(g)' PROVE Listed(g) /\ g # f
    BY <1>6, <1>7, <2>1 DEF HoldsOthers, Listed
  <2>2. ASSUME NEW g, Listed(g), g # f PROVE Listed(g)'
    BY <1>6, <1>7, <2>2 DEF HoldsOthers, Listed
  <2> QED BY <2>1, <2>2
<1>12. Found(f) \in 0..(CookieMod - 1)
  <2>1. 0 \in 0..(CookieMod - 1)
    BY CookieAssumption
  <2> QED BY <1>4, <2>1
<1>13. status' \in [Frames -> {NoStatus} \union (0..(CookieMod - 1))]
  BY <1>1, <1>2, <1>3, <1>12 DEF TypeOK
<1>14. \A g \in Frames : status'[g] = IF g = f THEN Found(f) ELSE status[g]
  BY <1>1, <1>2 DEF TypeOK
<1>15. TypeOK'
  BY <1>1, <1>2, <1>3, <1>6, <1>13 DEF TypeOK, HoldsOthers
<1>16. PlaceInv'
  BY <1>1, <1>3, <1>4, <1>8, <1>14 DEF IInv, PlaceInv, Unheard, Waiting
<1>17. OrderInv'
  BY <1>1, <1>2, <1>3 DEF OrderInv
<1>18. PairInv'
  <2>1. OnePerFrame(cookie_list)'
    BY <1>6 DEF HoldsOthers, OnePerFrame
  <2>2. \A i \in DOMAIN cookie_list' :
           cookie_list'[i].host_cookie = host'[cookie_list'[i].rpu_cookie]
    BY <1>1, <1>6, <1>7 DEF HoldsOthers, IInv, PairInv
  <2>3. \A g \in Frames :
           Listed(g)' <=> /\ g \in sending' \/ OnItsWay("tx_status", g)'
                          /\ ~OnItsWay("cookie_rsp", g)' /\ g \notin dropped'
    BY <1>1, <1>3, <1>4, <1>8 DEF IInv, PairInv
  <2> QED BY <2>1, <2>2, <2>3 DEF PairInv
<1>19. StatusReachesSender'
  BY <1>1, <1>4, <1>14 DEF IInv, StatusReachesSender
<1> QED BY <1>1, <1>15, <1>16, <1>17, <1>18, <1>19 DEF IInv, HostInv

-----------------------------------------------------------------------------
(* The theorems *)

LEMMA IInvInit == Init => IInv
<1> SUFFICES ASSUME Init PROVE IInv
  OBVIOUS
<1>1. CookieMod \in Nat /\ CookieMod > 1 /\ MaxFrames \in Nat /\ MaxFail \in Nat
  BY CookieAssumption
<1>2. /\ host = <<>> /\ refused = 0 /\ events = <<>> /\ sending = {} /\ accepting = <<>>
      /\ cookie_list = <<>> /\ dropped = {} /\ status = [f \in Frames |-> NoStatus]
  BY DEF Init
<1>3. /\ host \in Seq(0..(CookieMod - 1)) /\ events \in Seq(Event)
      /\ accepting \in Seq(Frames) /\ cookie_list \in Seq(Entry)
      /\ Len(host) = 0
      /\ DOMAIN host = {} /\ DOMAIN events = {} /\ DOMAIN accepting = {}
      /\ DOMAIN cookie_list = {}
  BY <1>2, EmptySeq
<1>4. TypeOK
  BY <1>1, <1>2, <1>3 DEF Init, TypeOK
<1>5. HostInv
  BY <1>1, <1>3 DEF HostInv
<1>6. PlaceInv
  BY <1>2, <1>3 DEF PlaceInv, Unheard, Waiting, Listed, OnItsWay, Range
<1>7. OrderInv
  BY <1>3 DEF OrderInv, IsInjective, Before
<1>8. PairInv
  BY <1>2, <1>3 DEF PairInv, OnePerFrame, Listed, OnItsWay
<1>9. StatusReachesSender
  BY <1>2 DEF StatusReachesSender
<1> QED BY <1>4, <1>5, <1>6, <1>7, <1>8, <1>9 DEF IInv

\* Every step keeps the invariant.
LEMMA IInvStep == IInv /\ [Next]_vars => IInv'
<1> SUFFICES ASSUME IInv, [Next]_vars PROVE IInv'
  OBVIOUS
<1>1. CASE MgmtTx
  BY <1>1, MgmtTxStep
<1>2. CASE MgmtTxFail
  BY <1>2, MgmtTxFailStep
<1>3. CASE FwCookieRsp
  BY <1>3, FwCookieRspStep
<1>4. ASSUME NEW f \in Frames, FwTxStatus(f) PROVE IInv'
  BY <1>4, FwTxStatusStep
<1>5. CASE CookieRsp
  BY <1>5, CookieRspStep
<1>6. CASE CookieRspNoMemory
  BY <1>6, CookieRspNoMemoryStep
<1>7. CASE TxStatus
  BY <1>7, TxStatusStep
<1>8. CASE UNCHANGED vars
  BY <1>8 DEF vars, IInv, TypeOK, HostInv, PlaceInv, OrderInv, PairInv,
              StatusReachesSender, Unheard, Waiting, Listed, OnItsWay, OnePerFrame, Before
<1> QED BY <1>1, <1>2, <1>3, <1>4, <1>5, <1>6, <1>7, <1>8 DEF Next

LEMMA IInvariance == Spec => []IInv
BY IInvInit, IInvStep, PTL DEF Spec

\* Every variable keeps its type.
THEOREM CookieTypesCorrect == Spec => []TypeOK
<1>1. IInv => TypeOK
  BY DEF IInv
<1> QED BY <1>1, IInvariance, PTL

\* A frame's status is reported with the cookie its sender was given, for any
\* width of the counter, any number of frames and any order of events, and the
\* list holds exactly the frames between their cookie response and their status.
THEOREM StatusesArePaired == Spec => []StatusesPaired
<1>1. IInv => ListIsOutstanding
  <2> SUFFICES ASSUME IInv PROVE ListIsOutstanding
    OBVIOUS
  <2> DEFINE P(f) == /\ f \in sending \/ OnItsWay("tx_status", f)
                     /\ ~OnItsWay("cookie_rsp", f) /\ f \notin dropped
  <2>1. \A i \in DOMAIN cookie_list : cookie_list[i].rpu_cookie \in Frames
    BY ListedWasSent
  <2>2. \A f \in Frames : Listed(f) <=> P(f)
    BY DEF IInv, PairInv
  <2> HIDE DEF P
  <2>3. {cookie_list[i].rpu_cookie : i \in DOMAIN cookie_list} = {f \in Frames : P(f)}
    BY <2>1, <2>2 DEF Listed
  <2>4. OnePerFrame(cookie_list)
    BY DEF IInv, PairInv
  <2> QED BY <2>3, <2>4 DEF ListIsOutstanding, P, OnePerFrame
<1>2. IInv => StatusesPaired
  BY <1>1 DEF IInv, StatusesPaired
<1> QED BY <1>2, IInvariance, PTL

-----------------------------------------------------------------------------
(* The refinement of MgmtStatus *)

\* Every step is a step of MgmtStatus or leaves what the sender sees alone.
LEMMA StatusesStep == IInv /\ IInv' /\ [Next]_vars => [Statuses!Next]_Statuses!statusVars
<1> SUFFICES ASSUME IInv, IInv', [Next]_vars
             PROVE  Statuses!Next \/ UNCHANGED <<host, dropped, status>>
  BY DEF Statuses!statusVars
<1>1. CASE MgmtTx
  <2>1. NextCookie(cmd_frame_cookie_g) \in 1..(CookieMod - 1)
    BY NextCookieType DEF IInv, TypeOK
  <2>2. Statuses!Send
    BY <1>1, <2>1 DEF MgmtTx, Statuses!Send
  <2> QED BY <2>2 DEF Statuses!Next
<1>2. CASE MgmtTxFail
  BY <1>2 DEF MgmtTxFail
<1>3. CASE FwCookieRsp
  BY <1>3 DEF FwCookieRsp
<1>4. ASSUME NEW f \in Frames, FwTxStatus(f) PROVE UNCHANGED <<host, dropped, status>>
  BY <1>4 DEF FwTxStatus
<1>5. CASE CookieRsp
  BY <1>5 DEF CookieRsp
<1>6. CASE CookieRspNoMemory
  <2> DEFINE f == Head(events).frame
  <2>1. Handle("cookie_rsp")
    BY <1>6 DEF CookieRspNoMemory
  <2>2. f \in DOMAIN host /\ f \notin dropped /\ status[f] = NoStatus
    BY <2>1, RspHandled
  <2>3. Statuses!Lose(f)
    BY <1>6, <2>2 DEF CookieRspNoMemory, Statuses!Lose
  <2> QED BY <2>2, <2>3 DEF Statuses!Next
<1>7. CASE TxStatus
  <2> DEFINE f == Head(events).frame
  <2>1. Handle("tx_status")
    BY <1>7 DEF TxStatus
  <2>2. /\ f \in DOMAIN host /\ status[f] = NoStatus
        /\ Found(f) = IF f \in dropped THEN 0 ELSE host[f]
    BY <2>1, StatHandled
  <2>3. Statuses!Report(f)
    BY <1>7, <2>2 DEF TxStatus, Statuses!Report
  <2> QED BY <2>2, <2>3 DEF Statuses!Next
<1>8. CASE UNCHANGED vars
  BY <1>8 DEF vars
<1> QED BY <1>1, <1>2, <1>3, <1>4, <1>5, <1>6, <1>7, <1>8 DEF Next

\* The sender of each frame sees a cookie that is not 0 and at most one status,
\* under the cookie it was given.
THEOREM StatusRefinement == Spec => ImplementsStatuses
<1>1. Init => Statuses!Init
  BY DEF Init, Statuses!Init
<1> QED BY <1>1, StatusesStep, IInvariance, PTL
        DEF Spec, ImplementsStatuses, Statuses!Spec
===============================================================================
