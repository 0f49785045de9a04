-------------------------- MODULE AdmissionProofs --------------------------
(***************************************************************************)
(* The counters of Admission for every number of calls and every limit:    *)
(* until the first fault the carrier's and the global counter are exact,   *)
(* and no more calls are up than the limits allow.                         *)
(***************************************************************************)
EXTENDS Admission, FiniteSetTheorems, TLAPS

USE SMTT(30), Z3T(30), ZenonT(30)

Places == {"idle", "undo customer", "global", "undo global", "setup", "reserved",
           "dial", "undo carrier", "begun", "hangup", "over"}
Dialled == {"reserved", "dial", "undo carrier", "begun", "hangup"}
Entries == [op : {"decr", "zero"}, scope : Scopes]

\* The counters the two theorems are about.
Tracked == {s \in {"carrier", "global"} : SlotLimit[s] > 0}

\* The counters a queue of Leaves is about; each is left once, and only an
\* untracked one is set to zero.
Scoped(q) == {q[i].scope : i \in 1..Len(q)}
Queue(q) ==
    /\ q \in Seq(Entries)
    /\ \A i, j \in 1..Len(q) : q[i].scope = q[j].scope => i = j
    /\ \A i \in 1..Len(q) : q[i].op = "zero" => q[i].scope \notin Tracked

\* Where a call stands says which counters it may have to leave: each only
\* once, by its own thread or by the one that bills it.
CallInv(c) ==
    /\ Queue(leaving[c]["call"]) /\ Queue(leaving[c]["bill"])
    /\ pc[c] \notin {"dial", "hangup", "over"} => Scoped(leaving[c]["call"]) = {}
    /\ pc[c] \in {"dial", "hangup"} => Scoped(leaving[c]["call"]) \subseteq {"carrier"}
    /\ pc[c] # "over" => Scoped(leaving[c]["bill"]) = {}
    /\ Scoped(leaving[c]["call"]) \cap Scoped(leaving[c]["bill"]) = {}
    /\ c \in winner => pc[c] = "hangup" /\ Scoped(leaving[c]["call"]) = {}
    /\ pc[c] \in Dialled <=> row[c] = "open"

Types ==
    /\ cc \in [Scopes -> Int]
    /\ pc \in [Calls -> Places]
    /\ winner \subseteq Calls
    /\ row \in [Calls -> {"none", "open", "settled"}]
    /\ leaving \in [Calls -> [{"call", "bill"} -> Seq(Entries)]]
    /\ sync \in [pc : {"idle", "counted", "drifted"}, open : Nat]

Counted(c, s) ==
    Up(c, s) \/ Over(c, s) \/ s \in Scoped(leaving[c]["call"]) \/ s \in Scoped(leaving[c]["bill"])
CountedCalls(s) == {c \in Calls : Counted(c, s)}
UpCalls(s) == {c \in Calls : Up(c, s)}

Exact(s) == cc[s] = Cardinality(CountedCalls(s))
Kept(s) == Cardinality(UpCalls(s)) <= SlotLimit[s]

NoFaultInv ==
    /\ Types
    /\ \A c \in Calls : CallInv(c)
    /\ \A s \in Tracked : Exact(s) /\ Kept(s)

AdmInv == faults \in Nat /\ (faults = 0 => NoFaultInv)

-----------------------------------------------------------------------------
\* Counting on and back, and a limit that is not exceeded.
LEMMA CountSteps == ASSUME NEW n \in Int PROVE n + 1 \in Int /\ n - 1 \in Int
  OBVIOUS

\* Not more is at most.
LEMMA WithinLimit == ASSUME NEW n \in Int, NEW m \in Nat, ~(n > m) PROVE n <= m
  OBVIOUS

\* A step that leaves faults alone is no fault.
LEMMA NoFault == ASSUME faults \in Nat, UNCHANGED faults PROVE ~Fault
  BY DEF Fault

\* One call more or less in a finite set of calls.
LEMMA Recount ==
    ASSUME NEW A \in SUBSET Calls, NEW B \in SUBSET Calls, NEW c \in Calls,
           \A d \in Calls : d # c => (d \in A <=> d \in B)
    PROVE  /\ Cardinality(A) \in Nat /\ Cardinality(B) \in Nat
           /\ (c \in A <=> c \in B) => Cardinality(B) = Cardinality(A)
           /\ c \in A /\ c \notin B => Cardinality(B) = Cardinality(A) - 1
           /\ c \notin A /\ c \in B => Cardinality(B) = Cardinality(A) + 1
<1>1. IsFiniteSet(Calls) BY SlotLimitsType
<1>2. IsFiniteSet(A) /\ IsFiniteSet(B) BY <1>1, FS_Subset
<1>3. Cardinality(A) \in Nat /\ Cardinality(B) \in Nat BY <1>2, FS_CardinalityType
<1>4. ASSUME c \in A <=> c \in B PROVE A = B
    <2>1. \A d \in Calls : d \in A <=> d \in B BY <1>4
    <2> QED BY <2>1, Zenon
<1>5. ASSUME c \in A, c \notin B PROVE Cardinality(B) = Cardinality(A) - 1
    <2>1. B = A \ {c} BY <1>5, Zenon
    <2> QED BY <2>1, <1>5, <1>2, FS_RemoveElement
<1>6. ASSUME c \notin A, c \in B PROVE Cardinality(B) = Cardinality(A) + 1
    <2>1. B = A \cup {c} BY <1>6, Zenon
    <2> QED BY <2>1, <1>6, <1>2, FS_AddElement
<1> QED BY <1>3, <1>4, <1>5, <1>6

\* Fewer calls are up than counted, and a smaller set has fewer elements.
LEMMA FewerCalls ==
    ASSUME NEW A \in SUBSET Calls, NEW B \in SUBSET A
    PROVE  Cardinality(A) \in Nat /\ Cardinality(B) \in Nat /\ Cardinality(B) <= Cardinality(A)
<1>1. IsFiniteSet(A) BY SlotLimitsType, FS_Subset
<1>2. IsFiniteSet(B) BY <1>1, FS_Subset
<1> QED BY <1>1, <1>2, FS_Subset, FS_CardinalityType

\* Leave takes the first counter of its queue.
LEMMA HeadTail ==
    ASSUME NEW q, Queue(q), q # <<>>
    PROVE  /\ Head(q) \in Entries /\ Head(q).scope \in Scoped(q)
           /\ Queue(Tail(q))
           /\ Scoped(Tail(q)) = Scoped(q) \ {Head(q).scope}
           /\ Head(q).op = "zero" => Head(q).scope \notin Tracked
<1> DEFINE r == Tail(q)
<1>1. /\ q \in Seq(Entries) /\ Len(q) \in Nat /\ Len(q) >= 1
      /\ \A i \in 1..Len(q) : q[i] \in Entries
      BY DEF Queue
<1>2. Head(q) = q[1] BY <1>1
<1>3. r \in Seq(Entries) /\ Len(r) = Len(q) - 1 /\ \A i \in 1..Len(r) : r[i] = q[i + 1] BY <1>1
<1>4. \A i, j \in 1..Len(q) : q[i].scope = q[j].scope => i = j BY DEF Queue
<1>5. \A i \in 1..Len(q) : q[i].op = "zero" => q[i].scope \notin Tracked BY DEF Queue
<1>6. \A i, j \in 1..Len(r) : r[i].scope = r[j].scope => i = j
    <2> TAKE i, j \in 1..Len(r)
    <2>1. i + 1 \in 1..Len(q) /\ j + 1 \in 1..Len(q) BY <1>1, <1>3
    <2> QED BY <2>1, <1>3, <1>4
<1>7. \A i \in 1..Len(r) : r[i].op = "zero" => r[i].scope \notin Tracked
    <2> TAKE i \in 1..Len(r)
    <2>1. i + 1 \in 1..Len(q) BY <1>1, <1>3
    <2> QED BY <2>1, <1>3, <1>5
<1>8. Queue(r) BY <1>3, <1>6, <1>7 DEF Queue
<1>9. ASSUME NEW s PROVE s \in Scoped(r) <=> s \in Scoped(q) /\ s # q[1].scope
    <2>1. ASSUME s \in Scoped(r) PROVE s \in Scoped(q) /\ s # q[1].scope
        <3>1. PICK i \in 1..Len(r) : s = r[i].scope BY <2>1 DEF Scoped
        <3>2. i + 1 \in 1..Len(q) /\ i + 1 # 1 /\ 1 \in 1..Len(q) /\ s = q[i + 1].scope BY <3>1, <1>1, <1>3
        <3> QED BY <3>2, <1>4 DEF Scoped
    <2>2. ASSUME s \in Scoped(q), s # q[1].scope PROVE s \in Scoped(r)
        <3>1. PICK i \in 1..Len(q) : s = q[i].scope BY <2>2 DEF Scoped
        <3>2. i # 1 BY <3>1, <2>2
        <3>3. i - 1 \in 1..Len(r) /\ r[i - 1] = q[i] BY <3>2, <1>1, <1>3
        <3> QED BY <3>1, <3>3 DEF Scoped
    <2> QED BY <2>1, <2>2
<1>10. q[1].scope \in Scoped(q) BY <1>1 DEF Scoped
<1>11. Scoped(r) = Scoped(q) \ {q[1].scope} BY <1>9, Zenon
<1>12. q[1].op = "zero" => q[1].scope \notin Tracked BY <1>1, <1>5
<1>13. q[1] \in Entries BY <1>1
<1> QED BY <1>2, <1>8, <1>10, <1>11, <1>12, <1>13

\* A queue that holds no counter is empty.
LEMMA EmptyQueue ==
    ASSUME NEW q \in Seq(Entries)
    PROVE  Scoped(q) = {} <=> q = <<>>
<1>1. Len(q) \in Nat /\ (Len(q) = 0 <=> q = <<>>) OBVIOUS
<1>2. ASSUME q # <<>> PROVE Scoped(q) # {}
    <2>1. 1 \in 1..Len(q) BY <1>1, <1>2
    <2> QED BY Zenon, <2>1 DEF Scoped
<1>3. ASSUME q = <<>> PROVE Scoped(q) = {} BY <1>3 DEF Scoped
<1> QED BY <1>2, <1>3

\* The queue with which Leave is called.
LeaveQueue(scopes) == [i \in 1..Len(scopes) |-> [op |-> "decr", scope |-> scopes[i]]]

\* It holds each of its counters once.
LEMMA NewQueue ==
    ASSUME NEW scopes \in Seq(Scopes),
           \A i, j \in 1..Len(scopes) : scopes[i] = scopes[j] => i = j
    PROVE  /\ Queue(LeaveQueue(scopes))
           /\ Scoped(LeaveQueue(scopes)) = {scopes[i] : i \in 1..Len(scopes)}
<1> DEFINE q == LeaveQueue(scopes)
<1>1. Len(scopes) \in Nat /\ \A i \in 1..Len(scopes) : scopes[i] \in Scopes OBVIOUS
<1>2. \A i \in 1..Len(scopes) : q[i] \in Entries /\ q[i].op = "decr" /\ q[i].scope = scopes[i]
      BY <1>1 DEF Entries, LeaveQueue
<1>3. q \in Seq(Entries) /\ Len(q) = Len(scopes) BY <1>1, <1>2 DEF LeaveQueue
<1> HIDE DEF q
<1>4. Queue(q) BY <1>2, <1>3 DEF Queue
<1>5. Scoped(q) = {scopes[i] : i \in 1..Len(scopes)} BY <1>2, <1>3 DEF Scoped
<1> QED BY <1>4, <1>5 DEF q

\* The customer's counter alone and the carrier's alone.
LEMMA OneCounter ==
    ASSUME NEW s \in Scopes
    PROVE  Queue(LeaveQueue(<<s>>)) /\ Scoped(LeaveQueue(<<s>>)) = {s}
<1> DEFINE a == <<s>>
<1>1. a \in Seq(Scopes) /\ Len(a) = 1 /\ a[1] = s OBVIOUS
<1> HIDE DEF a
<1>2. \A i, j \in 1..Len(a) : a[i] = a[j] => i = j BY <1>1
<1>3. {a[i] : i \in 1..Len(a)} = {s} BY <1>1
<1>4. Queue(LeaveQueue(a)) /\ Scoped(LeaveQueue(a)) = {s} BY <1>1, <1>2, <1>3, NewQueue
<1> QED BY <1>4 DEF a

\* The counters of a call, and with the carrier's.
LEMMA CallCounters ==
    /\ Queue(LeaveQueue(CallScopes))
    /\ Scoped(LeaveQueue(CallScopes)) = {"customer"} \cup {s \in {"global"} : SlotLimit[s] > 0}
    /\ Queue(LeaveQueue(CallScopes \o <<"carrier">>))
    /\ Scoped(LeaveQueue(CallScopes \o <<"carrier">>)) =
            {"customer", "carrier"} \cup {s \in {"global"} : SlotLimit[s] > 0}
<1> DEFINE a == CallScopes  b == CallScopes \o <<"carrier">>
<1>1. "customer" \in Scopes /\ "carrier" \in Scopes /\ "global" \in Scopes BY DEF Scopes
<1>2. CASE SlotLimit["global"] > 0
    <2>1. a = <<"customer", "global">> /\ b = <<"customer", "global">> \o <<"carrier">> BY <1>2 DEF CallScopes
    <2>2. a \in Seq(Scopes) /\ Len(a) = 2 /\ a[1] = "customer" /\ a[2] = "global" BY <1>1, <2>1
    <2>3. b \in Seq(Scopes) /\ Len(b) = 3 /\ b[1] = "customer" /\ b[2] = "global" /\ b[3] = "carrier"
          BY <1>1, <2>1
    <2> HIDE DEF a, b
    <2>4. \A i, j \in 1..Len(a) : a[i] = a[j] => i = j BY <2>2
    <2>5. \A i, j \in 1..Len(b) : b[i] = b[j] => i = j BY <2>3
    <2>6. {a[i] : i \in 1..Len(a)} = {"customer"} \cup {s \in {"global"} : SlotLimit[s] > 0} BY <1>2, <2>2
    <2>7. {b[i] : i \in 1..Len(b)} = {"customer", "carrier"} \cup {s \in {"global"} : SlotLimit[s] > 0}
          BY <1>2, <2>3
    <2>8. Queue(LeaveQueue(a)) /\ Scoped(LeaveQueue(a)) = {"customer"} \cup {s \in {"global"} : SlotLimit[s] > 0}
          BY <2>2, <2>4, <2>6, NewQueue
    <2>9. /\ Queue(LeaveQueue(b))
          /\ Scoped(LeaveQueue(b)) = {"customer", "carrier"} \cup {s \in {"global"} : SlotLimit[s] > 0}
          BY <2>3, <2>5, <2>7, NewQueue
    <2> QED BY <2>8, <2>9 DEF a, b
<1>3. CASE ~(SlotLimit["global"] > 0)
    <2>1. a = <<"customer">> /\ b = <<"customer">> \o <<"carrier">> BY <1>3 DEF CallScopes
    <2>2. a \in Seq(Scopes) /\ Len(a) = 1 /\ a[1] = "customer" BY <1>1, <2>1
    <2>3. b \in Seq(Scopes) /\ Len(b) = 2 /\ b[1] = "customer" /\ b[2] = "carrier" BY <1>1, <2>1
    <2> HIDE DEF a, b
    <2>4. \A i, j \in 1..Len(a) : a[i] = a[j] => i = j BY <2>2
    <2>5. \A i, j \in 1..Len(b) : b[i] = b[j] => i = j BY <2>3
    <2>6. {a[i] : i \in 1..Len(a)} = {"customer"} \cup {s \in {"global"} : SlotLimit[s] > 0} BY <1>3, <2>2
    <2>7. {b[i] : i \in 1..Len(b)} = {"customer", "carrier"} \cup {s \in {"global"} : SlotLimit[s] > 0}
          BY <1>3, <2>3
    <2>8. Queue(LeaveQueue(a)) /\ Scoped(LeaveQueue(a)) = {"customer"} \cup {s \in {"global"} : SlotLimit[s] > 0}
          BY <2>2, <2>4, <2>6, NewQueue
    <2>9. /\ Queue(LeaveQueue(b))
          /\ Scoped(LeaveQueue(b)) = {"customer", "carrier"} \cup {s \in {"global"} : SlotLimit[s] > 0}
          BY <2>3, <2>5, <2>7, NewQueue
    <2> QED BY <2>8, <2>9 DEF a, b
<1> QED BY <1>2, <1>3

-----------------------------------------------------------------------------
\* A step of one call: the other calls are as they were, the call is in a legal
\* place again, each tracked counter follows whether it counts the call, and
\* the call comes up only within the limit.
LEMMA StepOfCall ==
    ASSUME NoFaultInv, Types', NEW c \in Calls, CallInv(c)',
           \A d \in Calls : d # c => /\ pc'[d] = pc[d] /\ row'[d] = row[d]
                                     /\ leaving'[d] = leaving[d]
                                     /\ d \in winner' <=> d \in winner,
           \A s \in Tracked : /\ (Counted(c, s) <=> Counted(c, s)') => cc'[s] = cc[s]
                              /\ Counted(c, s) /\ ~Counted(c, s)' => cc'[s] = cc[s] - 1
                              /\ ~Counted(c, s) /\ Counted(c, s)' => cc'[s] = cc[s] + 1,
           \A s \in Tracked : Up(c, s)' => Up(c, s) \/ cc'[s] <= SlotLimit[s]
    PROVE  NoFaultInv'
<1>1. \A d \in Calls : CallInv(d)'
    <2> TAKE d \in Calls
    <2>1. CASE d = c BY <2>1
    <2>2. CASE d # c
        <3>1. CallInv(d) BY DEF NoFaultInv
        <3> QED BY <3>1, <2>2 DEF CallInv
    <2> QED BY <2>1, <2>2
<1>2. ASSUME NEW s \in Tracked, NEW d \in Calls, d # c
      PROVE (Up(d, s)' <=> Up(d, s)) /\ (Counted(d, s)' <=> Counted(d, s))
      BY <1>2 DEF Up, Over, Counted
<1>3. ASSUME NEW s \in Tracked PROVE Exact(s)' /\ Kept(s)'
    <2> DEFINE A == CountedCalls(s)  B == CountedCalls(s)'
    <2>1. A \in SUBSET Calls /\ B \in SUBSET Calls BY DEF CountedCalls
    <2>2. \A d \in Calls : (d \in A <=> Counted(d, s)) /\ (d \in B <=> Counted(d, s)') BY DEF CountedCalls
    <2>3. \A d \in Calls : d # c => (d \in A <=> d \in B) BY <1>2, <2>2
    <2> HIDE DEF A, B
    <2>4. cc[s] = Cardinality(A) /\ Cardinality(UpCalls(s)) <= SlotLimit[s] BY DEF NoFaultInv, Exact, Kept, A
    <2>5. /\ Cardinality(A) \in Nat /\ Cardinality(B) \in Nat
          /\ (c \in A <=> c \in B) => Cardinality(B) = Cardinality(A)
          /\ c \in A /\ c \notin B => Cardinality(B) = Cardinality(A) - 1
          /\ c \notin A /\ c \in B => Cardinality(B) = Cardinality(A) + 1
          BY <2>1, <2>3, Recount
    <2>6. cc'[s] = Cardinality(B) BY <2>2, <2>4, <2>5
    <2> DEFINE U == UpCalls(s)  V == UpCalls(s)'
    <2>7. U \in SUBSET Calls /\ V \in SUBSET Calls BY DEF UpCalls
    <2>8. \A d \in Calls : (d \in U <=> Up(d, s)) /\ (d \in V <=> Up(d, s)') BY DEF UpCalls
    <2>9. V \in SUBSET B BY <2>2, <2>7, <2>8 DEF Counted
    <2> HIDE DEF U, V
    <2>10. SlotLimit[s] \in Nat BY SlotLimitsType DEF Tracked, Scopes
    <2>11. Cardinality(V) <= SlotLimit[s]
        <3>1. CASE Up(c, s)' => Up(c, s)
            <4>1. \A d \in Calls : d \in V => d \in U BY <3>1, <1>2, <2>8
            <4>2. V \in SUBSET U BY <4>1, <2>7
            <4>3. Cardinality(V) \in Nat /\ Cardinality(U) \in Nat /\ Cardinality(V) <= Cardinality(U)
                  BY <4>2, <2>7, FewerCalls
            <4>4. Cardinality(U) <= SlotLimit[s] BY <2>4 DEF U
            <4> QED BY <4>3, <4>4, <2>10
        <3>2. CASE cc'[s] <= SlotLimit[s]
            <4>1. Cardinality(V) \in Nat /\ Cardinality(V) <= Cardinality(B) BY <2>9, <2>1, FewerCalls
            <4> QED BY <4>1, <3>2, <2>5, <2>6, <2>10
        <3> QED BY <3>1, <3>2
    <2> QED BY <2>6, <2>11 DEF Exact, Kept, B, V
<1> QED BY <1>1, <1>3 DEF NoFaultInv, Tracked

\* A step of c that changes its place, perhaps its row and one counter, but
\* no queue.
LEMMA PlaceStep ==
    ASSUME NoFaultInv, NEW c \in Calls, NEW to \in Places,
           pc' = [pc EXCEPT ![c] = to], UNCHANGED <<leaving, sync>>,
           Types', CallInv(c)',
           \A d \in Calls : d # c => row'[d] = row[d] /\ (d \in winner' <=> d \in winner),
           \A s \in Tracked : /\ (Counted(c, s) <=> Counted(c, s)') => cc'[s] = cc[s]
                              /\ Counted(c, s) /\ ~Counted(c, s)' => cc'[s] = cc[s] - 1
                              /\ ~Counted(c, s) /\ Counted(c, s)' => cc'[s] = cc[s] + 1,
           \A s \in Tracked : Up(c, s)' => Up(c, s) \/ cc'[s] <= SlotLimit[s]
    PROVE  NoFaultInv'
<1>1. \A d \in Calls : d # c => pc'[d] = pc[d] /\ leaving'[d] = leaving[d]
      BY DEF NoFaultInv, Types
<1> QED BY <1>1, StepOfCall

\* Admit at any of the three counters.
LEMMA AdmitKeeps ==
    ASSUME NoFaultInv, NEW c \in Calls, NEW from, NEW s, NEW undo, NEW admitted,
           Admit(c, from, s, undo, admitted),
           \/ /\ from = "idle" /\ s = "customer" /\ undo = "undo customer"
              /\ admitted = IF SlotLimit["global"] > 0 THEN "global" ELSE "setup"
           \/ from = "global" /\ s = "global" /\ undo = "undo global" /\ admitted = "setup"
           \/ from = "dial" /\ s = "carrier" /\ undo = "undo carrier" /\ admitted = "begun"
    PROVE  NoFaultInv'
<1>1. Types /\ CallInv(c) BY DEF NoFaultInv
<1>2. PICK to \in {undo, admitted} : pc' = [pc EXCEPT ![c] = to] BY DEF Admit, CallGoes
<1>3. to \in Places BY <1>2 DEF Places
<1>4. pc[c] = from /\ pc'[c] = to /\ s \in Scopes BY <1>1, <1>2 DEF Admit, Types, Scopes
<1>5. /\ cc' = [cc EXCEPT ![s] = cc[s] + 1] /\ UNCHANGED <<winner, row, leaving, sync>>
      /\ leaving[c]["call"] = <<>>
      BY DEF Admit, FreeSlots
<1>6. Scoped(leaving[c]["call"]) = {}
    <2>1. leaving[c]["call"] \in Seq(Entries) BY <1>1 DEF Types
    <2> QED BY <2>1, <1>5, EmptyQueue
<1>7. Types'
    <2>3. cc \in [Scopes -> Int] BY <1>1 DEF Types
    <2>4. cc[s] + 1 \in Int
        <3>1. cc[s] \in Int BY <2>3, <1>4, Zenon
        <3> QED BY <3>1, CountSteps, Zenon
    <2>1. cc' \in [Scopes -> Int] BY <2>3, <2>4, <1>5
    <2>2. pc' \in [Calls -> Places] BY <1>1, <1>2, <1>3 DEF Types
    <2> QED BY <1>1, <1>5, <2>1, <2>2 DEF Types
<1>8. CallInv(c)' BY <1>1, <1>2, <1>4, <1>5, <1>6 DEF CallInv, Dialled
<1>9. \A x \in Scopes : cc'[x] = IF x = s THEN cc[x] + 1 ELSE cc[x] BY <1>1, <1>5 DEF Types
<1>10. Tracked \subseteq Scopes /\ "customer" \notin Tracked /\ \A x \in Tracked : SlotLimit[x] > 0
       BY DEF Tracked, Scopes
<1>11. \A x \in Tracked : /\ (Counted(c, x) <=> Counted(c, x)') => cc'[x] = cc[x]
                          /\ Counted(c, x) /\ ~Counted(c, x)' => cc'[x] = cc[x] - 1
                          /\ ~Counted(c, x) /\ Counted(c, x)' => cc'[x] = cc[x] + 1
    <2> TAKE x \in Tracked
    <2>1. x \in {"carrier", "global"} BY DEF Tracked
    <2>2. x = s => ~Counted(c, x) /\ Counted(c, x)'
          BY <1>1, <1>2, <1>4, <1>5, <1>6, <2>1 DEF Counted, Up, Over, CallInv, Dialled
    <2>3. ASSUME x # s PROVE Counted(c, x) <=> Counted(c, x)'
        <3>1. /\ x \in Scoped(leaving[c]["call"]) <=> x \in Scoped(leaving'[c]["call"])
              /\ x \in Scoped(leaving[c]["bill"]) <=> x \in Scoped(leaving'[c]["bill"])
              BY <1>5
        <3>2. Up(c, x) <=> Up(c, x)'
            <4>1. CASE x = "carrier" BY <4>1, <2>3, <1>2, <1>4, <1>5 DEF Up
            <4>2. CASE x = "global" BY <4>2, <2>3, <1>2, <1>4, <1>5, <1>10 DEF Up
            <4> QED BY <4>1, <4>2, <2>1
        <3>3. Over(c, x) <=> Over(c, x)'
            <4>1. CASE x = "carrier" BY <4>1, <2>3, <1>2, <1>4, <1>5 DEF Over
            <4>2. CASE x = "global" BY <4>2, <2>3, <1>2, <1>4, <1>5, <1>10 DEF Over
            <4> QED BY <4>1, <4>2, <2>1
        <3> QED BY <3>1, <3>2, <3>3 DEF Counted
    <2> QED BY <2>2, <2>3, <1>9, <1>10
<1>12. \A x \in Tracked : Up(c, x)' => Up(c, x) \/ cc'[x] <= SlotLimit[x]
    <2> SUFFICES ASSUME NEW x \in Tracked, Up(c, x)', ~Up(c, x) PROVE cc'[x] <= SlotLimit[x] OBVIOUS
    <2>1. x \in {"carrier", "global"} BY DEF Tracked
    <2>2. x = s /\ to = admitted /\ to # undo
          BY <1>1, <1>2, <1>4, <1>5, <2>1, <1>10 DEF Up, CallInv, Dialled
    <2>3. ~Exceeded(s, cc[s] + 1) BY <2>2, <1>4, <1>1 DEF Admit, CallGoes, Types
    <2>4. cc[s] \in Int /\ SlotLimit[s] \in Nat BY <1>1, <1>4, SlotLimitsType DEF Types
    <2>5. SlotLimit[s] > 0 BY <2>2, <1>10
    <2>6. ~(cc[s] + 1 > SlotLimit[s]) BY <2>3, <2>5 DEF Exceeded
    <2>7. cc[s] + 1 <= SlotLimit[s]
        <3>1. cc[s] + 1 \in Int BY <2>4, CountSteps, Zenon
        <3> QED BY <3>1, <2>4, <2>6, WithinLimit, Zenon
    <2> QED BY <2>2, <2>7, <1>4, <1>9
<1> QED BY <1>2, <1>3, <1>5, <1>7, <1>8, <1>11, <1>12, PlaceStep

\* A step of c that moves no counter and neither adds to nor takes from what
\* it counts: the reservation, the dialogue, the answer, the end of dialling.
LEMMA QuietStep ==
    ASSUME NoFaultInv, NEW c \in Calls,
           \/ ReserveRow(c) \/ Dial(c) \/ Answered(c) \/ DialEnds(c)
    PROVE  NoFaultInv'
<1>1. Types /\ CallInv(c) BY DEF NoFaultInv
<1>2. PICK to \in {"reserved", "dial", "hangup"} : pc' = [pc EXCEPT ![c] = to]
      BY DEF ReserveRow, Dial, Answered, DialEnds, CallGoes
<1>3. to \in Places /\ pc'[c] = to BY <1>1, <1>2 DEF Places, Types
<1>4. UNCHANGED <<cc, leaving, sync>> BY DEF ReserveRow, Dial, Answered, DialEnds
<1>5. Types' /\ \A d \in Calls : d # c => row'[d] = row[d] /\ (d \in winner' <=> d \in winner)
      BY Zenon, <1>1, <1>2, <1>3, <1>4 DEF ReserveRow, Dial, Answered, DialEnds, Types
<1>6. CASE ReserveRow(c)
    <2>1. /\ pc[c] = "setup" /\ pc'[c] = "reserved" /\ row'[c] = "open"
          /\ UNCHANGED winner
          BY <1>6, <1>1 DEF ReserveRow, CallGoes, Types
    <2>2. CallInv(c)' BY <1>1, <1>4, <2>1 DEF CallInv, Dialled
    <2>3. \A s \in Tracked : (Up(c, s) <=> Up(c, s)') /\ (Counted(c, s) <=> Counted(c, s)')
          BY <1>1, <1>4, <2>1 DEF Counted, Up, Over, CallInv
    <2> QED BY Zenon, <1>2, <1>3, <1>4, <1>5, <2>2, <2>3, PlaceStep
<1>7. CASE Dial(c)
    <2>1. pc[c] = "reserved" /\ pc'[c] = "dial" /\ UNCHANGED <<winner, row>>
          BY <1>7, <1>1 DEF Dial, CallGoes, Types
    <2>2. CallInv(c)' BY <1>1, <1>4, <2>1 DEF CallInv, Dialled
    <2>3. \A s \in Tracked : (Up(c, s) <=> Up(c, s)') /\ (Counted(c, s) <=> Counted(c, s)')
          BY <1>1, <1>4, <2>1 DEF Counted, Up, Over, CallInv
    <2> QED BY Zenon, <1>2, <1>3, <1>4, <1>5, <2>2, <2>3, PlaceStep
<1>8. CASE Answered(c)
    <2>1. /\ pc[c] = "begun" /\ pc'[c] = "hangup" /\ c \in winner' /\ UNCHANGED row
          BY <1>8, <1>1 DEF Answered, CallGoes, Types
    <2>2. CallInv(c)' BY <1>1, <1>4, <2>1 DEF CallInv, Dialled
    <2>3. \A s \in Tracked : (Up(c, s) <=> Up(c, s)') /\ (Counted(c, s) <=> Counted(c, s)')
          BY <1>1, <1>4, <2>1 DEF Counted, Up, Over, CallInv, Dialled
    <2> QED BY Zenon, <1>2, <1>3, <1>4, <1>5, <2>2, <2>3, PlaceStep
<1>9. CASE DialEnds(c)
    <2>1. pc[c] = "dial" /\ pc'[c] = "hangup" /\ UNCHANGED <<winner, row>>
          BY <1>9, <1>1 DEF DialEnds, CallGoes, Types
    <2>2. CallInv(c)' BY <1>1, <1>4, <2>1 DEF CallInv, Dialled
    <2>3. \A s \in Tracked : (Up(c, s) <=> Up(c, s)') /\ (Counted(c, s) <=> Counted(c, s)')
          BY <1>1, <1>4, <2>1 DEF Counted, Up, Over, CallInv, Dialled
    <2> QED BY Zenon, <1>2, <1>3, <1>4, <1>5, <2>2, <2>3, PlaceStep
<1> QED BY <1>6, <1>7, <1>8, <1>9

\* The DECR of a refused Admit at the customer's and at the carrier's counter.
LEMMA UndoKeeps ==
    ASSUME NoFaultInv, NEW c \in Calls, NEW from, NEW s, NEW to,
           Undo(c, from, s, to), UNCHANGED <<leaving, faults>>, faults \in Nat,
           \/ from = "undo customer" /\ s = "customer" /\ to = "over"
           \/ from = "undo carrier" /\ s = "carrier" /\ to = "dial"
    PROVE  NoFaultInv'
<1>1. Types /\ CallInv(c) BY DEF NoFaultInv
<1>2. pc' = [pc EXCEPT ![c] = to] /\ to \in Places BY DEF Undo, CallGoes, Places
<1>3. pc[c] = from /\ pc'[c] = to /\ s \in Scopes BY <1>1, <1>2 DEF Undo, Types, Scopes
<1>4. cc' = [cc EXCEPT ![s] = cc[s] - 1] /\ UNCHANGED <<winner, row, leaving, sync>>
      BY NoFault, Zenon DEF Undo
<1>5. cc \in [Scopes -> Int] BY <1>1 DEF Types
<1>6. cc[s] - 1 \in Int
    <2>1. cc[s] \in Int BY <1>3, <1>5, Zenon
    <2> QED BY <2>1, CountSteps, Zenon
<1>7. cc' \in [Scopes -> Int] /\ \A x \in Scopes : cc'[x] = IF x = s THEN cc[x] - 1 ELSE cc[x]
      BY <1>4, <1>5, <1>6
<1>8. pc' \in [Calls -> Places] BY <1>1, <1>2 DEF Types
<1>9. Types' BY <1>1, <1>4, <1>7, <1>8 DEF Types
<1>10. CallInv(c)' BY <1>1, <1>3, <1>4 DEF CallInv, Dialled
<1>11. ASSUME NEW x \in Tracked
       PROVE /\ x \in Scopes
             /\ x = s => Counted(c, x) /\ ~Counted(c, x)'
             /\ x # s => (Counted(c, x) <=> Counted(c, x)')
             /\ Up(c, x)' => Up(c, x)
    <2>1. x \in {"carrier", "global"} BY DEF Tracked
    <2>2. /\ x \notin Scoped(leaving[c]["call"]) /\ x \notin Scoped(leaving'[c]["call"])
          /\ x \notin Scoped(leaving[c]["bill"]) /\ x \notin Scoped(leaving'[c]["bill"])
          BY <1>1, <1>3, <1>4 DEF CallInv
    <2>3. CASE x = "carrier" BY <2>2, <2>3, <1>3, <1>4 DEF Counted, Up, Over, Scopes
    <2>4. CASE x = "global" BY <2>2, <2>4, <1>3, <1>4 DEF Counted, Up, Over, Scopes
    <2> QED BY <2>1, <2>3, <2>4
<1> QED BY <1>2, <1>4, <1>7, <1>9, <1>10, <1>11, PlaceStep

\* Leave is called for some counters of c by thread t.
LEMMA LeavingStarts ==
    ASSUME Types, NEW c \in Calls, NEW t \in {"call", "bill"}, NEW scopes,
           StartLeaving(c, t, scopes), Queue(LeaveQueue(scopes))
    PROVE  /\ leaving' \in [Calls -> [{"call", "bill"} -> Seq(Entries)]]
           /\ leaving'[c][t] = LeaveQueue(scopes)
           /\ \A u \in {"call", "bill"} : u # t => leaving'[c][u] = leaving[c][u]
           /\ \A d \in Calls : d # c => leaving'[d] = leaving[d]
<1> DEFINE q == LeaveQueue(scopes)
<1>1. q \in Seq(Entries) BY DEF Queue
<1>2. leaving' = [leaving EXCEPT ![c][t] = q] BY DEF StartLeaving, LeaveQueue
<1>3. leaving \in [Calls -> [{"call", "bill"} -> Seq(Entries)]] BY DEF Types
<1> HIDE DEF q
<1>4. QED
    <2>1. leaving[c] \in [{"call", "bill"} -> Seq(Entries)] BY <1>3
    <2>2. [leaving[c] EXCEPT ![t] = q] \in [{"call", "bill"} -> Seq(Entries)] BY <1>1, <2>1
    <2>3. leaving' = [leaving EXCEPT ![c] = [leaving[c] EXCEPT ![t] = q]] BY <1>2
    <2>4. leaving' \in [Calls -> [{"call", "bill"} -> Seq(Entries)]] BY <1>3, <2>2, <2>3
    <2>5. leaving'[c] = [leaving[c] EXCEPT ![t] = q] BY <1>3, <2>3
    <2>6. leaving'[c][t] = q /\ \A u \in {"call", "bill"} : u # t => leaving'[c][u] = leaving[c][u]
          BY <2>1, <2>5
    <2>7. \A d \in Calls : d # c => leaving'[d] = leaving[d] BY <1>3, <2>3
    <2> QED BY <2>4, <2>6, <2>7 DEF q

\* rejectAdmitted and rejectReserved: the slots of the call become slots to leave.
LEMMA RejectedLeaves ==
    ASSUME NoFaultInv, NEW c \in Calls, faults \in Nat, UNCHANGED faults,
           RejectAdmitted(c) \/ RejectReserved(c)
    PROVE  NoFaultInv'
<1>1. Types /\ CallInv(c) BY DEF NoFaultInv
<1>2. /\ pc' = [pc EXCEPT ![c] = "over"] /\ pc[c] \in {"setup", "reserved"}
      /\ StartLeaving(c, "call", CallScopes) /\ UNCHANGED <<cc, winner, sync>>
      BY DEF RejectAdmitted, RejectReserved, CallGoes
<1>3. pc'[c] = "over" /\ pc' \in [Calls -> Places] /\ \A d \in Calls : d # c => pc'[d] = pc[d]
      BY <1>1, <1>2 DEF Types, Places
<1>4. /\ row' \in [Calls -> {"none", "open", "settled"}] /\ row'[c] # "open"
      /\ \A d \in Calls : d # c => row'[d] = row[d]
    <2>1. CASE RejectAdmitted(c) BY <2>1, <1>1 DEF RejectAdmitted, Types, CallInv, Dialled
    <2>2. CASE RejectReserved(c)
        <3>1. row' = [row EXCEPT ![c] = "settled"] BY <2>2, NoFault, Zenon DEF RejectReserved
        <3> QED BY <3>1, <1>1 DEF Types
    <2> QED BY <2>1, <2>2
<1> DEFINE q == LeaveQueue(CallScopes)
<1>5. /\ Queue(q) /\ Scoped(q) \subseteq {"customer", "global"}
      /\ "global" \in Tracked => "global" \in Scoped(q)
      BY CallCounters DEF Tracked
<1>6. /\ leaving' \in [Calls -> [{"call", "bill"} -> Seq(Entries)]]
      /\ leaving'[c]["call"] = q /\ leaving'[c]["bill"] = leaving[c]["bill"]
      /\ \A d \in Calls : d # c => leaving'[d] = leaving[d]
      BY <1>1, <1>2, <1>5, LeavingStarts
<1> HIDE DEF q
<1>7. Types' BY <1>1, <1>2, <1>3, <1>4, <1>6 DEF Types
<1>8. Scoped(leaving[c]["call"]) = {} /\ Scoped(leaving[c]["bill"]) = {} /\ c \notin winner
      BY <1>1, <1>2 DEF CallInv
<1>9. CallInv(c)' BY <1>1, <1>2, <1>3, <1>4, <1>5, <1>6, <1>8 DEF CallInv, Dialled
<1>10. ASSUME NEW x \in Tracked
       PROVE  (Counted(c, x) <=> Counted(c, x)') /\ cc'[x] = cc[x] /\ (Up(c, x)' => Up(c, x))
    <2>1. x \in {"carrier", "global"} BY DEF Tracked
    <2>2. /\ x \notin Scoped(leaving[c]["call"]) /\ x \notin Scoped(leaving[c]["bill"])
          /\ x \in Scoped(leaving'[c]["call"]) <=> x = "global"
          /\ x \notin Scoped(leaving'[c]["bill"])
          BY <1>5, <1>6, <1>8, <2>1
    <2>3. CASE x = "carrier" BY <2>2, <2>3, <1>2, <1>3 DEF Counted, Up, Over
    <2>4. CASE x = "global" BY <2>2, <2>4, <1>2, <1>3 DEF Counted, Up, Over
    <2> QED BY <2>1, <2>3, <2>4
<1> QED BY Zenon, <1>2, <1>3, <1>4, <1>6, <1>7, <1>9, <1>10, StepOfCall

\* The global counter refuses: it goes down, and the customer's is left.
LEMMA GlobalRefused ==
    ASSUME NoFaultInv, NEW c \in Calls, faults \in Nat, UNCHANGED faults,
           Undo(c, "undo global", "global", "over"), StartLeaving(c, "call", <<"customer">>)
    PROVE  NoFaultInv'
<1>1. Types /\ CallInv(c) BY DEF NoFaultInv
<1>2. /\ pc' = [pc EXCEPT ![c] = "over"] /\ pc[c] = "undo global"
      /\ cc' = [cc EXCEPT !["global"] = cc["global"] - 1] /\ UNCHANGED <<row, winner, sync>>
      BY NoFault, Zenon DEF Undo, CallGoes
<1>3. pc'[c] = "over" /\ pc' \in [Calls -> Places] /\ \A d \in Calls : d # c => pc'[d] = pc[d]
      BY <1>1, <1>2 DEF Types, Places
<1>4. /\ cc' \in [Scopes -> Int] /\ cc'["global"] = cc["global"] - 1 /\ cc'["carrier"] = cc["carrier"]
    <2>1. cc \in [Scopes -> Int] /\ "global" \in Scopes /\ "carrier" \in Scopes BY <1>1 DEF Types, Scopes
    <2>2. cc["global"] \in Int BY <2>1, Zenon
    <2>3. cc["global"] - 1 \in Int BY <2>2, CountSteps, Zenon
    <2> QED BY <2>1, <2>3, <1>2
<1> DEFINE q == LeaveQueue(<<"customer">>)
<1>5. Queue(q) /\ Scoped(q) = {"customer"} BY OneCounter DEF Scopes
<1>6. /\ leaving' \in [Calls -> [{"call", "bill"} -> Seq(Entries)]]
      /\ leaving'[c]["call"] = q /\ leaving'[c]["bill"] = leaving[c]["bill"]
      /\ \A d \in Calls : d # c => leaving'[d] = leaving[d]
      BY <1>1, <1>5, LeavingStarts
<1> HIDE DEF q
<1>7. Types' BY <1>1, <1>2, <1>3, <1>4, <1>6 DEF Types
<1>8. Scoped(leaving[c]["call"]) = {} /\ Scoped(leaving[c]["bill"]) = {} /\ c \notin winner
      BY <1>1, <1>2 DEF CallInv
<1>9. CallInv(c)' BY <1>1, <1>2, <1>3, <1>5, <1>6, <1>8 DEF CallInv, Dialled
<1>10. ASSUME NEW x \in Tracked
       PROVE  /\ x = "carrier" => ~Counted(c, x) /\ ~Counted(c, x)' /\ cc'[x] = cc[x]
              /\ x = "global" => Counted(c, x) /\ ~Counted(c, x)' /\ cc'[x] = cc[x] - 1
              /\ x \in {"carrier", "global"} /\ ~Up(c, x)'
    <2>1. x \in {"carrier", "global"} BY DEF Tracked
    <2>2. /\ x \notin Scoped(leaving[c]["call"]) /\ x \notin Scoped(leaving[c]["bill"])
          /\ x \notin Scoped(leaving'[c]["call"]) /\ x \notin Scoped(leaving'[c]["bill"])
          BY <1>5, <1>6, <1>8, <2>1
    <2>3. CASE x = "carrier" BY <2>2, <2>3, <1>2, <1>3, <1>4 DEF Counted, Up, Over
    <2>4. CASE x = "global" BY <2>2, <2>4, <1>2, <1>3, <1>4 DEF Counted, Up, Over
    <2> QED BY <2>1, <2>3, <2>4
<1> QED BY <1>2, <1>3, <1>6, <1>7, <1>9, <1>10, StepOfCall
\* A failed attempt: the carrier's slot becomes one to leave.
LEMMA AttemptLeaves ==
    ASSUME NoFaultInv, NEW c \in Calls, faults \in Nat, UNCHANGED faults, AttemptFails(c)
    PROVE  NoFaultInv'
<1>1. Types /\ CallInv(c) BY DEF NoFaultInv
<1>2. PICK to \in {"dial", "hangup"} :
        /\ pc' = [pc EXCEPT ![c] = to] /\ pc[c] = "begun"
        /\ StartLeaving(c, "call", <<"carrier">>) /\ UNCHANGED <<cc, winner, row, sync>>
      BY NoFault, Zenon DEF AttemptFails, CallGoes
<1>3. pc'[c] = to /\ pc' \in [Calls -> Places] /\ \A d \in Calls : d # c => pc'[d] = pc[d]
      BY <1>1, <1>2 DEF Types, Places
<1> DEFINE q == LeaveQueue(<<"carrier">>)
<1>5. Queue(q) /\ Scoped(q) = {"carrier"} BY OneCounter DEF Scopes
<1>6. /\ leaving' \in [Calls -> [{"call", "bill"} -> Seq(Entries)]]
      /\ leaving'[c]["call"] = q /\ leaving'[c]["bill"] = leaving[c]["bill"]
      /\ \A d \in Calls : d # c => leaving'[d] = leaving[d]
      BY <1>1, <1>2, <1>5, LeavingStarts
<1> HIDE DEF q
<1>7. Types' BY <1>1, <1>2, <1>3, <1>6 DEF Types
<1>8. /\ Scoped(leaving[c]["call"]) = {} /\ Scoped(leaving[c]["bill"]) = {} /\ c \notin winner
      /\ row[c] = "open"
      BY <1>1, <1>2 DEF CallInv, Dialled
<1>9. CallInv(c)' BY <1>1, <1>2, <1>3, <1>5, <1>6, <1>8 DEF CallInv, Dialled
<1>10. ASSUME NEW x \in Tracked
       PROVE  (Counted(c, x) <=> Counted(c, x)') /\ cc'[x] = cc[x] /\ (Up(c, x)' => Up(c, x))
    <2>1. x \in {"carrier", "global"} BY DEF Tracked
    <2>2. x \in Scoped(leaving'[c]["call"]) <=> x = "carrier" BY <1>5, <1>6, <2>1
    <2>3. CASE x = "carrier" BY <2>2, <2>3, <1>2, <1>3, <1>8 DEF Counted, Up, Over
    <2>4. CASE x = "global" BY <2>2, <2>4, <1>2, <1>3, <1>8 DEF Counted, Up, Over
    <2> QED BY <2>1, <2>3, <2>4
<1> QED BY Zenon, <1>2, <1>3, <1>6, <1>7, <1>9, <1>10, StepOfCall

\* Engine.Bill: the slots of the call become slots the bill leaves.
LEMMA BilledLeaves ==
    ASSUME NoFaultInv, NEW c \in Calls, faults \in Nat, UNCHANGED faults, Bill(c)
    PROVE  NoFaultInv'
<1>1. Types /\ CallInv(c) BY DEF NoFaultInv
<1> DEFINE scopes == IF c \in winner THEN CallScopes \o <<"carrier">> ELSE CallScopes
<1>2. /\ pc' = [pc EXCEPT ![c] = "over"] /\ row[c] = "open" /\ pc[c] \in {"hangup", "over"}
      /\ row' = [row EXCEPT ![c] = "settled"] /\ winner' = winner \ {c}
      /\ StartLeaving(c, "bill", scopes) /\ UNCHANGED <<cc, sync>>
      BY NoFault, Zenon DEF Bill, CallGoes
<1>3. /\ pc'[c] = "over" /\ pc' \in [Calls -> Places] /\ \A d \in Calls : d # c => pc'[d] = pc[d]
      /\ row'[c] = "settled" /\ row' \in [Calls -> {"none", "open", "settled"}]
      /\ \A d \in Calls : d # c => row'[d] = row[d]
      BY <1>1, <1>2 DEF Types, Places
<1>4. pc[c] = "hangup" BY <1>1, <1>2 DEF CallInv, Dialled
<1> DEFINE q == LeaveQueue(scopes)
<1>5. /\ Queue(q) /\ Scoped(q) \subseteq {"customer", "global", "carrier"}
      /\ "global" \in Tracked => "global" \in Scoped(q)
      /\ "carrier" \in Scoped(q) <=> c \in winner
    <2>1. CASE c \in winner BY <2>1, CallCounters DEF Tracked
    <2>2. CASE c \notin winner BY <2>2, CallCounters DEF Tracked
    <2> QED BY <2>1, <2>2
<1> HIDE DEF scopes
<1>6. /\ leaving' \in [Calls -> [{"call", "bill"} -> Seq(Entries)]]
      /\ leaving'[c]["bill"] = q /\ leaving'[c]["call"] = leaving[c]["call"]
      /\ \A d \in Calls : d # c => leaving'[d] = leaving[d]
      BY <1>1, <1>2, <1>5, LeavingStarts
<1> HIDE DEF q
<1>7. Types' BY <1>1, <1>2, <1>3, <1>6 DEF Types
<1>8. /\ Scoped(leaving[c]["call"]) \subseteq {"carrier"} /\ Scoped(leaving[c]["bill"]) = {}
      /\ c \in winner => Scoped(leaving[c]["call"]) = {}
      BY <1>1, <1>4 DEF CallInv
<1>9. CallInv(c)'
    <2>1. Queue(leaving'[c]["call"]) /\ Queue(leaving'[c]["bill"]) BY <1>1, <1>5, <1>6 DEF CallInv
    <2>2. Scoped(leaving'[c]["call"]) \cap Scoped(leaving'[c]["bill"]) = {} BY <1>5, <1>6, <1>8
    <2> QED BY <1>2, <1>3, <2>1, <2>2 DEF CallInv, Dialled
<1>10. ASSUME NEW x \in Tracked
       PROVE  (Counted(c, x) <=> Counted(c, x)') /\ cc'[x] = cc[x] /\ (Up(c, x)' => Up(c, x))
    <2>1. x \in {"carrier", "global"} BY DEF Tracked
    <2>3. CASE x = "carrier" BY <2>3, <1>2, <1>3, <1>4, <1>5, <1>6, <1>8 DEF Counted, Up, Over
    <2>4. CASE x = "global" BY <2>4, <1>2, <1>3, <1>4, <1>5, <1>6, <1>8 DEF Counted, Up, Over
    <2> QED BY <2>1, <2>3, <2>4
<1> QED BY <1>2, <1>3, <1>6, <1>7, <1>9, <1>10, StepOfCall

\* The SET 0 that follows a DECR below zero stands for the same counter.
LEMMA ZeroFirst ==
    ASSUME NEW q, Queue(q), q # <<>>, Head(q).scope \notin Tracked
    PROVE  LET z == <<[op |-> "zero", scope |-> Head(q).scope]>> \o Tail(q)
           IN  Queue(z) /\ Scoped(z) = Scoped(q)
<1> DEFINE h == [op |-> "zero", scope |-> Head(q).scope]
           r == Tail(q)
           z == <<h>> \o r
<1>1. q \in Seq(Entries) /\ Len(q) \in Nat /\ Len(q) >= 1 /\ \A i \in 1..Len(q) : q[i] \in Entries
      BY DEF Queue
<1>2. Head(q) = q[1] BY <1>1
<1>3. h \in Entries /\ h.scope = q[1].scope /\ h.op = "zero" BY <1>1, <1>2 DEF Entries
<1>4. r \in Seq(Entries) /\ Len(r) = Len(q) - 1 /\ \A i \in 1..Len(r) : r[i] = q[i + 1] BY <1>1
<1> HIDE DEF h, r
<1>5. z \in Seq(Entries) /\ Len(z) = Len(q) /\ z[1] = h BY <1>1, <1>3, <1>4
<1>6. \A i \in 1..Len(q) : i # 1 => z[i] = q[i]
    <2> TAKE i \in 1..Len(q)
    <2> HAVE i # 1
    <2>1. i - 1 \in 1..Len(r) BY <1>1, <1>4
    <2>2. z[i] = r[i - 1] BY <2>1, <1>3, <1>4
    <2> QED BY <2>1, <2>2, <1>4
<1> HIDE DEF z
<1>7. \A i \in 1..Len(q) : z[i].scope = q[i].scope BY <1>3, <1>5, <1>6
<1>8. Queue(z)
    <2>1. \A i, j \in 1..Len(q) : q[i].scope = q[j].scope => i = j BY DEF Queue
    <2>2. \A i \in 1..Len(q) : z[i].op = "zero" => z[i].scope \notin Tracked
          BY <1>2, <1>3, <1>5, <1>6 DEF Queue
    <2> QED BY <1>5, <1>7, <2>1, <2>2 DEF Queue
<1>9. Scoped(z) = Scoped(q) BY <1>5, <1>7 DEF Scoped
<1> QED BY <1>8, <1>9 DEF z, h, r
\* A call that is counted makes its counter positive.
LEMMA CountedIsPositive ==
    ASSUME NoFaultInv, NEW c \in Calls, NEW s \in Tracked, Counted(c, s)
    PROVE  cc[s] \in Nat /\ cc[s] >= 1
<1> DEFINE A == CountedCalls(s)
<1>1. A \in SUBSET Calls /\ c \in A BY DEF CountedCalls
<1>2. cc[s] = Cardinality(A) BY DEF NoFaultInv, Exact
<1> HIDE DEF A
<1>3. \A d \in Calls : d # c => (d \in A <=> d \in A \ {c}) BY <1>1
<1>4. A \ {c} \in SUBSET Calls /\ c \notin A \ {c} BY <1>1
<1>5. /\ Cardinality(A) \in Nat /\ Cardinality(A \ {c}) \in Nat
      /\ Cardinality(A \ {c}) = Cardinality(A) - 1
      BY <1>1, <1>3, <1>4, Recount
<1> QED BY <1>2, <1>5

\* What one command of Leave does to its counter and to its queue.
LEMMA LeaveCommand ==
    ASSUME NoFaultInv, NEW c \in Calls, NEW t \in {"call", "bill"},
           faults \in Nat, UNCHANGED faults, Leave(c, t)
    PROVE  \E new \in Seq(Entries), s \in Scopes :
              /\ leaving' = [leaving EXCEPT ![c][t] = new] /\ Queue(new)
              /\ s \in Scoped(leaving[c][t]) /\ Scoped(new) \subseteq Scoped(leaving[c][t])
              /\ Scoped(leaving[c][t]) \ {s} \subseteq Scoped(new)
              /\ cc' \in [Scopes -> Int] /\ \A x \in Scopes : x # s => cc'[x] = cc[x]
              /\ s \in Tracked => s \notin Scoped(new) /\ cc'[s] = cc[s] - 1
              /\ UNCHANGED <<pc, winner, row, sync>>
<1> DEFINE q == leaving[c][t]  s == Head(q).scope  r == Tail(q)
<1>1. Types /\ CallInv(c) BY DEF NoFaultInv
<1>2. Queue(q)
    <2>1. CASE t = "call" BY <1>1, <2>1 DEF CallInv
    <2>2. CASE t = "bill" BY <1>1, <2>2 DEF CallInv
    <2> QED BY <2>1, <2>2
<1>3. q # <<>> /\ UNCHANGED <<pc, winner, row, sync>> BY DEF Leave
<1>4. /\ Head(q) \in Entries /\ s \in Scoped(q) /\ Queue(r) /\ Scoped(r) = Scoped(q) \ {s}
      /\ Head(q).op = "zero" => s \notin Tracked
      BY <1>2, <1>3, HeadTail
<1>5. s \in Scopes BY <1>4 DEF Entries
<1>6. cc \in [Scopes -> Int] BY <1>1 DEF Types
<1>7. cc[s] \in Int /\ cc[s] - 1 \in Int
    <2>1. cc[s] \in Int BY <1>5, <1>6, Zenon
    <2> QED BY <2>1, CountSteps, Zenon
<1>8. CASE /\ cc' = [cc EXCEPT ![s] = cc[s] - 1]
           /\ leaving' = [leaving EXCEPT ![c][t] =
                 IF cc[s] - 1 < 0 THEN <<[op |-> "zero", scope |-> s]>> \o r ELSE r]
    <2>1. cc' \in [Scopes -> Int] /\ cc'[s] = cc[s] - 1 /\ \A x \in Scopes : x # s => cc'[x] = cc[x]
          BY <1>5, <1>6, <1>7, <1>8
    <2>2. CASE cc[s] - 1 < 0
        <3> DEFINE z == <<[op |-> "zero", scope |-> s]>> \o r
        <3>1. s \notin Tracked
            <4>1. SUFFICES ASSUME s \in Tracked PROVE FALSE OBVIOUS
            <4>2. Counted(c, s) BY <1>4 DEF Counted
            <4>3. cc[s] \in Nat /\ cc[s] >= 1 BY <4>1, <4>2, CountedIsPositive
            <4> HIDE DEF s
            <4> QED BY <4>3, <2>2, <1>7
        <3>2. Queue(z) /\ Scoped(z) = Scoped(q) BY <1>2, <1>3, <3>1, ZeroFirst
        <3>3. leaving' = [leaving EXCEPT ![c][t] = z] BY <1>8, <2>2
        <3>4. z \in Seq(Entries) BY <3>2 DEF Queue
        <3> HIDE DEF z, s, q
        <3> QED BY Zenon, <1>3, <1>4, <1>5, <2>1, <3>1, <3>2, <3>3, <3>4 DEF q
    <2>3. CASE ~(cc[s] - 1 < 0)
        <3>1. leaving' = [leaving EXCEPT ![c][t] = r] BY <1>8, <2>3
        <3>2. r \in Seq(Entries) BY <1>4 DEF Queue
        <3> HIDE DEF r, s, q
        <3> QED BY Zenon, <1>3, <1>4, <1>5, <2>1, <3>1, <3>2 DEF q
    <2> QED BY <2>2, <2>3
<1>9. CASE /\ Head(q).op = "zero" /\ cc' = [cc EXCEPT ![s] = 0]
           /\ leaving' = [leaving EXCEPT ![c][t] = r]
    <2>1. cc' \in [Scopes -> Int] /\ \A x \in Scopes : x # s => cc'[x] = cc[x] BY <1>5, <1>6, <1>9
    <2>2. s \notin Tracked BY <1>4, <1>9
    <2>3. leaving' = [leaving EXCEPT ![c][t] = r] BY <1>9
    <2>4. r \in Seq(Entries) BY <1>4 DEF Queue
    <2> HIDE DEF r, s, q
    <2> QED BY Zenon, <1>3, <1>4, <1>5, <2>1, <2>2, <2>3, <2>4 DEF q
<1>10. QED BY <1>8, <1>9, NoFault, Zenon DEF Leave

\* Leave by either thread.
LEMMA LeaveKeeps ==
    ASSUME NoFaultInv, NEW c \in Calls, NEW t \in {"call", "bill"},
           faults \in Nat, UNCHANGED faults, Leave(c, t)
    PROVE  NoFaultInv'
<1>1. Types /\ CallInv(c) BY DEF NoFaultInv
<1>2. PICK new \in Seq(Entries), s \in Scopes :
              /\ leaving' = [leaving EXCEPT ![c][t] = new] /\ Queue(new)
              /\ s \in Scoped(leaving[c][t]) /\ Scoped(new) \subseteq Scoped(leaving[c][t])
              /\ Scoped(leaving[c][t]) \ {s} \subseteq Scoped(new)
              /\ cc' \in [Scopes -> Int] /\ \A x \in Scopes : x # s => cc'[x] = cc[x]
              /\ s \in Tracked => s \notin Scoped(new) /\ cc'[s] = cc[s] - 1
              /\ UNCHANGED <<pc, winner, row, sync>>
      BY Zenon, LeaveCommand
<1>3. /\ leaving' \in [Calls -> [{"call", "bill"} -> Seq(Entries)]]
      /\ leaving'[c][t] = new
      /\ \A u \in {"call", "bill"} : u # t => leaving'[c][u] = leaving[c][u]
      /\ \A d \in Calls : d # c => leaving'[d] = leaving[d]
    <2>1. leaving \in [Calls -> [{"call", "bill"} -> Seq(Entries)]] BY <1>1 DEF Types
    <2>2. new \in Seq(Entries) BY <1>2 DEF Queue
    <2>3. leaving[c] \in [{"call", "bill"} -> Seq(Entries)] BY <2>1
    <2>4. [leaving[c] EXCEPT ![t] = new] \in [{"call", "bill"} -> Seq(Entries)] BY <2>2, <2>3
    <2>5. leaving' = [leaving EXCEPT ![c] = [leaving[c] EXCEPT ![t] = new]] BY <1>2
    <2>6. leaving'[c] = [leaving[c] EXCEPT ![t] = new] BY <2>1, <2>5
    <2>7. leaving' \in [Calls -> [{"call", "bill"} -> Seq(Entries)]] BY <2>1, <2>4, <2>5
    <2>8. \A d \in Calls : d # c => leaving'[d] = leaving[d] BY <2>1, <2>5
    <2>9. leaving'[c][t] = new /\ \A u \in {"call", "bill"} : u # t => leaving'[c][u] = leaving[c][u]
          BY <2>3, <2>6
    <2> QED BY <2>7, <2>8, <2>9
<1>4. Types' BY <1>1, <1>2, <1>3 DEF Types
<1>5. /\ Scoped(leaving'[c]["call"]) \subseteq Scoped(leaving[c]["call"])
      /\ Scoped(leaving'[c]["bill"]) \subseteq Scoped(leaving[c]["bill"])
      /\ Queue(leaving'[c]["call"]) /\ Queue(leaving'[c]["bill"])
    <2>1. CASE t = "call" BY <2>1, <1>1, <1>2, <1>3 DEF CallInv
    <2>2. CASE t = "bill" BY <2>2, <1>1, <1>2, <1>3 DEF CallInv
    <2> QED BY <2>1, <2>2
<1>6. CallInv(c)' BY <1>1, <1>2, <1>5 DEF CallInv
<1>7. ASSUME NEW x \in Tracked
      PROVE  /\ x # s => cc'[x] = cc[x] /\ (Counted(c, x) <=> Counted(c, x)')
             /\ x = s => cc'[x] = cc[x] - 1 /\ Counted(c, x) /\ ~Counted(c, x)'
             /\ Up(c, x)' => Up(c, x)
    <2>1. x \in Scopes /\ x \in {"carrier", "global"} BY DEF Tracked, Scopes
    <2>2. (Up(c, x)' <=> Up(c, x)) /\ (Over(c, x)' <=> Over(c, x)) BY <1>2 DEF Up, Over
    <2>3. ASSUME x # s PROVE cc'[x] = cc[x] /\ (Counted(c, x) <=> Counted(c, x)')
        <3>1. cc'[x] = cc[x] BY <1>2, <2>1, <2>3
        <3>2. \A u \in {"call", "bill"} :
                x \in Scoped(leaving'[c][u]) <=> x \in Scoped(leaving[c][u])
              BY <1>2, <1>3, <2>3
        <3> QED BY <2>2, <3>1, <3>2 DEF Counted
    <2>4. ASSUME x = s PROVE cc'[x] = cc[x] - 1 /\ Counted(c, x) /\ ~Counted(c, x)'
        <3>1. cc'[x] = cc[x] - 1 BY <1>2, <2>4
        <3>2. x \in Scoped(leaving[c][t]) /\ x \notin Scoped(leaving'[c][t]) BY <1>2, <1>3, <2>4
        <3>3. /\ x \notin Scoped(leaving'[c]["call"]) /\ x \notin Scoped(leaving'[c]["bill"])
              /\ ~Up(c, x) /\ ~Over(c, x) /\ Counted(c, x)
            <4>1. CASE t = "call"
                <5>1. x \in Scoped(leaving[c]["call"]) /\ x \notin Scoped(leaving'[c]["call"])
                      BY <3>2, <4>1
                <5>2. x \notin Scoped(leaving'[c]["bill"]) BY <5>1, <1>1, <1>5 DEF CallInv
                <5>3. pc[c] \in {"dial", "hangup", "over"} /\ c \notin winner BY <5>1, <1>1 DEF CallInv
                <5>4. pc[c] \in {"dial", "hangup"} => x = "carrier" BY <5>1, <1>1 DEF CallInv
                <5>5. ~Up(c, x) /\ ~Over(c, x) BY <5>3, <5>4, <2>1 DEF Up, Over
                <5> QED BY <5>1, <5>2, <5>5 DEF Counted
            <4>2. CASE t = "bill"
                <5>1. x \in Scoped(leaving[c]["bill"]) /\ x \notin Scoped(leaving'[c]["bill"])
                      BY <3>2, <4>2
                <5>2. x \notin Scoped(leaving'[c]["call"]) BY <5>1, <1>1, <1>5 DEF CallInv
                <5>3. pc[c] = "over" BY <5>1, <1>1 DEF CallInv
                <5>4. ~Up(c, x) /\ ~Over(c, x) BY <5>3, <2>1 DEF Up, Over
                <5> QED BY <5>1, <5>2, <5>4 DEF Counted
            <4> QED BY <4>1, <4>2
        <3> QED BY <3>1, <3>3, <2>2 DEF Counted
    <2> QED BY <2>2, <2>3, <2>4
<1> QED BY <1>2, <1>3, <1>4, <1>6, <1>7, StepOfCall

\* syncCounters touches the customer's counter only.
LEMMA SyncKeeps ==
    ASSUME NoFaultInv, faults \in Nat, UNCHANGED faults, SyncCount \/ SyncRead \/ SyncSet
    PROVE  NoFaultInv'
<1>1. Types BY DEF NoFaultInv
<1>2. UNCHANGED <<pc, winner, row, leaving>> BY DEF SyncCount, SyncRead, SyncSet
<1>3. OpenRows \in Nat
    <2>1. {c \in Calls : row[c] = "open"} \in SUBSET Calls OBVIOUS
    <2> QED BY <2>1, FewerCalls DEF OpenRows
<1>4. sync' \in [pc : {"idle", "counted", "drifted"}, open : Nat]
      BY <1>1, <1>3 DEF SyncCount, SyncRead, SyncSet, SyncIdle, Types
<1>5. cc' \in [Scopes -> Int] /\ \A s \in Tracked : cc'[s] = cc[s]
    <2>1. CASE UNCHANGED cc BY <2>1, <1>1 DEF Types
    <2>2. CASE cc' = [cc EXCEPT !["customer"] = sync.open]
        <3>1. sync.open \in Int BY <1>1 DEF Types
        <3> QED BY <2>2, <3>1, <1>1 DEF Types, Scopes, Tracked
    <2> QED BY <2>1, <2>2 DEF SyncCount, SyncRead, SyncSet
<1>6. Types' BY <1>1, <1>2, <1>4, <1>5 DEF Types
<1>7. \A c \in Calls : CallInv(c)' BY <1>2 DEF NoFaultInv, CallInv
<1>8. ASSUME NEW s \in Tracked PROVE Exact(s)' /\ Kept(s)'
    <2>1. CountedCalls(s)' = CountedCalls(s) BY <1>2 DEF CountedCalls, Counted, Up, Over
    <2>2. UpCalls(s)' = UpCalls(s) BY <1>2 DEF UpCalls, Up
    <2> QED BY <1>5, <2>1, <2>2 DEF NoFaultInv, Exact, Kept
<1> QED BY <1>6, <1>7, <1>8 DEF NoFaultInv, Tracked
-----------------------------------------------------------------------------
\* Every step but a fault keeps the invariant.
LEMMA StepKeeps ==
    ASSUME NoFaultInv, faults \in Nat, UNCHANGED faults, AdmNext
    PROVE  NoFaultInv'
<1>1. ~Fault BY NoFault
<1>2. CASE SyncCount \/ SyncRead \/ SyncSet BY <1>2, SyncKeeps
<1>3. CASE RedisFailover BY <1>3, <1>1 DEF RedisFailover
<1>4. ASSUME NEW c \in Calls, Handler(c) PROVE NoFaultInv'
    <2>1. CASE AdmitCustomer(c)
        <3>1. ~AdmitFails(c, "idle", "customer", "over") BY <1>1, Zenon DEF AdmitFails
        <3>2. CASE Undo(c, "undo customer", "customer", "over") /\ UNCHANGED leaving BY <3>2, UndoKeeps
        <3>3. CASE Admit(c, "idle", "customer", "undo customer",
                         IF SlotLimit["global"] > 0 THEN "global" ELSE "setup")
              BY <3>3, AdmitKeeps
        <3> QED BY <2>1, <3>1, <3>2, <3>3, Zenon DEF AdmitCustomer
    <2>2. CASE AdmitGlobal(c)
        <3>1. ~AdmitFails(c, "global", "global", "over") BY <1>1, Zenon DEF AdmitFails
        <3>2. CASE Undo(c, "undo global", "global", "over") /\ StartLeaving(c, "call", <<"customer">>)
              BY <3>2, GlobalRefused
        <3>3. CASE Admit(c, "global", "global", "undo global", "setup") BY <3>3, AdmitKeeps
        <3> QED BY <2>2, <3>1, <3>2, <3>3, Zenon DEF AdmitGlobal
    <2>3. CASE BeginAttempt(c)
        <3>1. ~AdmitFails(c, "dial", "carrier", "begun") BY <1>1, Zenon DEF AdmitFails
        <3>2. CASE Undo(c, "undo carrier", "carrier", "dial") /\ UNCHANGED leaving BY <3>2, UndoKeeps
        <3>3. CASE Admit(c, "dial", "carrier", "undo carrier", "begun") BY <3>3, AdmitKeeps
        <3> QED BY <2>3, <3>1, <3>2, <3>3, Zenon DEF BeginAttempt
    <2>4. CASE RejectAdmitted(c) \/ RejectReserved(c) BY <2>4, RejectedLeaves
    <2>5. CASE AttemptFails(c) BY <2>5, AttemptLeaves
    <2>6. CASE ReserveRow(c) \/ Dial(c) \/ Answered(c) \/ DialEnds(c) BY <2>6, QuietStep
    <2>7. CASE SetupFails(c) BY <2>7, <1>1, Zenon DEF SetupFails
    <2> QED BY <1>4, <2>1, <2>2, <2>3, <2>4, <2>5, <2>6, <2>7, Zenon DEF Handler
<1>5. ASSUME NEW c \in Calls, Bill(c) PROVE NoFaultInv' BY <1>5, BilledLeaves
<1>6. ASSUME NEW c \in Calls, NEW t \in {"call", "bill"}, Leave(c, t) PROVE NoFaultInv'
      BY <1>6, LeaveKeeps
<1> QED BY <1>2, <1>3, <1>4, <1>5, <1>6, Zenon DEF AdmNext

\* Once a fault has happened, one has happened.
LEMMA FaultsGrow ==
    ASSUME faults \in Nat, [AdmNext]_admVars
    PROVE  faults' \in Nat /\ (faults' = 0 => UNCHANGED faults)
<1>1. faults' = faults \/ faults' = faults + 1
    <2>1. CASE UNCHANGED admVars BY <2>1 DEF admVars
    <2>2. CASE SyncCount \/ SyncRead \/ SyncSet \/ RedisFailover
          BY <2>2, Zenon DEF SyncCount, SyncRead, SyncSet, RedisFailover, Fault
    <2>3. ASSUME NEW c \in Calls, Handler(c) PROVE faults' = faults \/ faults' = faults + 1
          BY <2>3, Zenon DEF Handler, AdmitCustomer, AdmitGlobal, BeginAttempt, Admit, AdmitFails, Undo,
             RejectAdmitted, ReserveRow, SetupFails, RejectReserved, Dial, AttemptFails, Answered,
             DialEnds, Fault
    <2>4. ASSUME NEW c \in Calls, Bill(c) PROVE faults' = faults \/ faults' = faults + 1
          BY <2>4, Zenon DEF Bill, Fault
    <2>5. ASSUME NEW c \in Calls, NEW t, Leave(c, t) PROVE faults' = faults \/ faults' = faults + 1
          BY <2>5, Zenon DEF Leave, Fault
    <2> QED BY <2>1, <2>2, <2>3, <2>4, <2>5, Zenon DEF AdmNext
<1> QED BY <1>1

\* No call, no slot.
LEMMA InitHolds == ASSUME AdmInit PROVE AdmInv
<1>1. Types BY DEF AdmInit, Types, Scopes, Places, SyncIdle
<1>2. ASSUME NEW c \in Calls PROVE /\ CallInv(c) /\ \A s \in Tracked : ~Counted(c, s) /\ ~Up(c, s)
    <2>1. /\ leaving[c]["call"] = <<>> /\ leaving[c]["bill"] = <<>> /\ pc[c] = "idle"
          /\ row[c] = "none" /\ c \notin winner
          BY DEF AdmInit
    <2> DEFINE e == <<>>
    <2>2. Queue(e) /\ Scoped(e) = {} BY DEF Queue, Scoped
    <2>3. \A s \in Tracked : ~Up(c, s) /\ ~Over(c, s) BY <2>1 DEF Up, Over
    <2> HIDE DEF e
    <2>4. leaving[c]["call"] = e /\ leaving[c]["bill"] = e BY <2>1 DEF e
    <2> QED BY <2>1, <2>2, <2>3, <2>4 DEF CallInv, Counted, Dialled
<1>3. ASSUME NEW s \in Tracked PROVE Exact(s) /\ Kept(s)
    <2>1. CountedCalls(s) = {} /\ UpCalls(s) = {} BY <1>2 DEF CountedCalls, UpCalls
    <2>2. Cardinality({}) = 0 BY FS_EmptySet
    <2>3. s \in Scopes /\ SlotLimit[s] \in Nat BY SlotLimitsType DEF Tracked, Scopes
    <2>4. cc[s] = 0 BY <2>3 DEF AdmInit
    <2> QED BY <2>1, <2>2, <2>3, <2>4 DEF Exact, Kept
<1> QED BY <1>1, <1>2, <1>3 DEF AdmInv, NoFaultInv, AdmInit

\* The invariant is inductive.
THEOREM AdmissionInvariant == AdmSpec => []AdmInv
<1>1. AdmInit => AdmInv BY InitHolds
<1>2. AdmInv /\ [AdmNext]_admVars => AdmInv'
    <2> SUFFICES ASSUME AdmInv, [AdmNext]_admVars PROVE AdmInv' OBVIOUS
    <2>1. faults' \in Nat /\ (faults' = 0 => UNCHANGED faults) BY FaultsGrow DEF AdmInv
    <2>2. ASSUME faults' = 0 PROVE NoFaultInv'
        <3>1. UNCHANGED faults /\ faults \in Nat /\ NoFaultInv BY <2>1, <2>2 DEF AdmInv
        <3>2. CASE AdmNext BY <3>1, <3>2, StepKeeps
        <3>3. CASE UNCHANGED admVars
            <4>1. UNCHANGED <<cc, pc, winner, row, leaving, sync>> BY <3>3 DEF admVars
            <4>2. Types' BY <3>1, <4>1 DEF NoFaultInv, Types
            <4>3. \A c \in Calls : CallInv(c)' BY <3>1, <4>1 DEF NoFaultInv, CallInv
            <4>4. \A c \in Calls, s \in Tracked : (Counted(c, s)' <=> Counted(c, s)) /\ (Up(c, s)' <=> Up(c, s))
                  BY <4>1 DEF Counted, Up, Over
            <4>5. \A s \in Tracked : CountedCalls(s)' = CountedCalls(s) /\ UpCalls(s)' = UpCalls(s)
                  BY <4>4 DEF CountedCalls, UpCalls
            <4>6. \A s \in Tracked : Exact(s)' /\ Kept(s)'
                  BY <3>1, <4>1, <4>5 DEF NoFaultInv, Exact, Kept
            <4> QED BY <4>2, <4>3, <4>6 DEF NoFaultInv
        <3> QED BY <3>2, <3>3
    <2> QED BY <2>1, <2>2 DEF AdmInv
<1> QED BY <1>1, <1>2, PTL DEF AdmSpec

\* Until the first fault the carrier's and the global counter of Admission
\* count exactly the calls that are up, about to be turned down, or about to
\* leave, for any number of calls and any limits (Admit, Leave, Bill).
THEOREM SlotsStayExact == AdmSpec => []SlotsExact
<1>1. AdmInv => SlotsExact
    <2> SUFFICES ASSUME NoFaultInv, NEW s \in {"carrier", "global"}, SlotLimit[s] > 0
                 PROVE  cc[s] = Cardinality({c \in Calls : Up(c, s) \/ Over(c, s) \/ LeavesScope(c, s)})
          BY DEF AdmInv, SlotsExact
    <2>1. s \in Tracked BY DEF Tracked
    <2>2. \A c \in Calls : LeavesScope(c, s) <=> \E t \in {"call", "bill"} : s \in Scoped(leaving[c][t])
          BY DEF LeavesScope, Scoped
    <2>3. {c \in Calls : Up(c, s) \/ Over(c, s) \/ LeavesScope(c, s)} = CountedCalls(s)
          BY <2>2 DEF CountedCalls, Counted
    <2> QED BY <2>1, <2>3 DEF NoFaultInv, Exact
<1> QED BY <1>1, AdmissionInvariant, PTL

\* Until the first fault no more calls are up at the carrier and in the node
\* group than their limits allow: the INCR that is over the limit is seen by
\* the call that made it, whatever the others do (Admission.Admit).
THEOREM LimitsAreKept == AdmSpec => []LimitKept
<1>1. AdmInv => LimitKept
    <2> SUFFICES ASSUME NoFaultInv, NEW s \in {"carrier", "global"}, SlotLimit[s] > 0
                 PROVE  Cardinality({c \in Calls : Up(c, s)}) <= SlotLimit[s]
          BY DEF AdmInv, LimitKept
    <2>1. s \in Tracked BY DEF Tracked
    <2> QED BY <2>1 DEF NoFaultInv, Kept, UpCalls
<1> QED BY <1>1, AdmissionInvariant, PTL
=============================================================================
