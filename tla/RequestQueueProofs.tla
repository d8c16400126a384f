-------------------------- MODULE RequestQueueProofs --------------------------
(***************************************************************************)
(* Proofs about the request queue, for any number of threads, requests and *)
(* vrings: completion_bh is scheduled by exactly one completion for every  *)
(* time the completion list is filled, a queue is released when nobody     *)
(* uses it any more, and the queue implements RequestLife.                 *)
(***************************************************************************)
EXTENDS RequestQueue, FiniteSetTheorems, WellFoundedInduction, TLAPS

\* What FirstSchedules needs to be inductive: a thread that inserts has a
\* request to insert, and the list is taken only by the BH that runs.
ScheduleInv ==
    /\ slh_first \in Bio \cup {Null}
    /\ pc \in [Thread -> {"idle", "read", "cmpxchg", "schedule"}]
    /\ bio \in [Thread -> Bio \cup {Null}]
    /\ \A t \in Thread : pc[t] \in {"read", "cmpxchg"} => bio[t] \in Bio
    /\ scheduled \in {{}, {CompletionBh}}
    /\ running \in {{}, {CompletionBh}}
    /\ stolen \in BOOLEAN
    /\ stolen => running # {}
    /\ FirstSchedules

\* Every step of the queue, of its BH and of the completing threads keeps
\* ScheduleInv.
LEMMA NextSchedule == ScheduleInv /\ [Next]_vars => ScheduleInv'
  <1> SUFFICES ASSUME ScheduleInv, [Next]_vars
               PROVE  ScheduleInv'
    OBVIOUS
  <1>2. ASSUME NEW v \in Vring, vhd_cancel_queued_requests(v)
        PROVE  ScheduleInv'
    BY <1>2, NullAssumption DEF ScheduleInv, FirstSchedules, Scheduler, Unstolen,
       vhd_cancel_queued_requests, Idle, completionVars, threadVars, bhVars, req_complete
  <1>3. ASSUME NEW v \in Vring, NEW b \in Bio, vhd_enqueue_block_request(b, v)
        PROVE  ScheduleInv'
    BY <1>3, NullAssumption DEF ScheduleInv, FirstSchedules, Scheduler, Unstolen,
       vhd_enqueue_block_request, Idle, completionVars, threadVars, bhVars
  <1>4. CASE vhd_dequeue_request
    BY <1>4, NullAssumption DEF ScheduleInv, FirstSchedules, Scheduler, Unstolen,
       vhd_dequeue_request, Idle, completionVars, threadVars, bhVars
  <1>5. CASE vhd_release_request_queue
    BY <1>5, NullAssumption DEF ScheduleInv, FirstSchedules, Scheduler, Unstolen,
       vhd_release_request_queue, Idle, completionVars, threadVars, bhVars, BHs!Revoke
  <1>6. ASSUME NEW t \in Thread, ReadFirst(t)
        PROVE  ScheduleInv'
    BY <1>6, NullAssumption DEF ScheduleInv, FirstSchedules, Scheduler, Unstolen,
       ReadFirst, Idle, completionVars, threadVars, bhVars
  <1>7. ASSUME NEW t \in Thread, Cmpxchg(t)
        PROVE  ScheduleInv'
    BY <1>7, NullAssumption DEF ScheduleInv, FirstSchedules, Scheduler, Unstolen,
       Cmpxchg, Idle, completionVars, threadVars, bhVars, Replaced
  <1>8. ASSUME NEW t \in Thread, ScheduleBh(t)
        PROVE  ScheduleInv'
    BY <1>8, NullAssumption DEF ScheduleInv, FirstSchedules, Scheduler, Unstolen,
       ScheduleBh, Idle, completionVars, threadVars, bhVars, BHs!Schedule
  <1>9. ASSUME NEW t \in Thread, NEW b \in Bio, vhd_complete_bio(t, b)
        PROVE  ScheduleInv'
    BY <1>9, NullAssumption DEF ScheduleInv, FirstSchedules, Scheduler, Unstolen,
       vhd_complete_bio, Idle, completionVars, threadVars, bhVars
  <1>10. CASE CallBh
    BY <1>10, NullAssumption DEF ScheduleInv, FirstSchedules, Scheduler, Unstolen,
       CallBh, Idle, completionVars, threadVars, bhVars, BHs!Call
  <1>11. CASE StealCompletions
    BY <1>11, NullAssumption DEF ScheduleInv, FirstSchedules, Scheduler, Unstolen,
       StealCompletions, Idle, completionVars, threadVars, bhVars
  <1>12. CASE CompleteFirst
    BY <1>12, NullAssumption DEF ScheduleInv, FirstSchedules, Scheduler, Unstolen,
       CompleteFirst, Idle, completionVars, threadVars, bhVars, req_complete
  <1>13. CASE BhReturns
    BY <1>13, NullAssumption DEF ScheduleInv, FirstSchedules, Scheduler, Unstolen,
       BhReturns, Idle, completionVars, threadVars, bhVars, BHs!Return
  <1>14. CASE UNCHANGED vars
    BY <1>14 DEF ScheduleInv, FirstSchedules, Scheduler, Unstolen, vars,
       completionVars, threadVars, bhVars
  <1>15. QED
    BY <1>2, <1>3, <1>4, <1>5, <1>6, <1>7, <1>8,
       <1>9, <1>10, <1>11, <1>12, <1>13, <1>14
       DEF Next, ThreadStep, BhStep

\* The first completion on the list has scheduled the BH, and no other one:
\* the comment in vhd_complete_bio is right for any number of threads.
THEOREM FirstCompletionSchedules == Spec => []FirstSchedules
  <1>1. Init => ScheduleInv
    BY DEF Init, ScheduleInv, FirstSchedules, Scheduler, Unstolen, BHs!Init
  <1>2. ScheduleInv => FirstSchedules
    BY DEF ScheduleInv
  <1>3. QED
    BY <1>1, <1>2, NextSchedule, PTL DEF Spec

-----------------------------------------------------------------------------
(* The invariant. *)

NoDuplicates(s) == \A i, j \in 1 .. Len(s) : s[i] = s[j] => i = j

\* The requests in used are in one place each: queued in q, with the backend,
\* or completed and in d.
InOnePlace(q, bios, d, used) ==
    /\ q \in Seq(Bio) /\ d \in Seq(Bio) /\ bios \subseteq Bio
    /\ NoDuplicates(q) /\ NoDuplicates(d)
    /\ Life!In(q) \cap bios = {}
    /\ Life!In(q) \cap Life!In(d) = {}
    /\ bios \cap Life!In(d) = {}
    /\ Life!In(q) \cup bios \cup Life!In(d) = used

InUse == {b \in Bio : vring[b] # Null}

\* The completion list ends: stale pointers of freed bios are not on it.
ListInv ==
    LET list == Reversed(sle_next, slh_first)
    IN  list \in Seq(Bio) /\ Links(sle_next, list, slh_first)

\* A thread that inserts a request has it to itself, and has linked it to what
\* it compares the head with.
ThreadInv ==
    /\ \A t \in Thread :
          /\ pc[t] \in {"read", "cmpxchg"} => bio[t] \in backend
          /\ pc[t] \in {"idle", "schedule"} => bio[t] = Null
          /\ pc[t] = "cmpxchg" => sle_next[bio[t]] = old_slh_first[t]
    /\ \A t, u \in Thread : bio[t] = bio[u] /\ bio[t] # Null => t = u

Counted ==
    \A v \in Vring : num_in_flight[v] = Cardinality({b \in Bio : vring[b] = v})

QueueInv ==
    /\ TypeOK
    /\ ThreadInv
    /\ ListInv
    /\ InOnePlace(submission, backend, Unreported, InUse)
    /\ Counted
    /\ ~stolen => bio_list = <<>>
    /\ state = "released" => \A v \in Vring : num_in_flight[v] = 0

-----------------------------------------------------------------------------
(* Sequences. *)

\* A set of naturals that is not empty has a least member.
LEMMA Least ==
  ASSUME NEW T, T \subseteq Nat, T # {}
  PROVE  \E x \in T : \A y \in T : x <= y
<1>. DEFINE R == {ss \in Nat \X Nat : ss[1] < ss[2]}
<1>1. IsWellFoundedOn(R, Nat)
  BY NatLessThanWellFounded DEF OpToRel
<1>2. PICK x \in T : \A y \in T : ~ (<<y, x>> \in R)
  BY <1>1, WFMin
<1>3. \A y \in T : ~ (y < x)
  BY <1>2
<1> QED
  BY <1>3

\* What Append adds.
LEMMA InAppend ==
  ASSUME NEW s \in Seq(Bio), NEW b \in Bio
  PROVE  /\ Append(s, b) \in Seq(Bio)
         /\ Life!In(Append(s, b)) = Life!In(s) \cup {b}
         /\ NoDuplicates(s) /\ b \notin Life!In(s) => NoDuplicates(Append(s, b))
<1>1. /\ Append(s, b) \in Seq(Bio) /\ Len(Append(s, b)) = Len(s) + 1
      /\ \A i \in 1 .. Len(s) : Append(s, b)[i] = s[i]
      /\ Append(s, b)[Len(s) + 1] = b
      /\ DOMAIN s = 1 .. Len(s) /\ DOMAIN Append(s, b) = 1 .. Len(s) + 1
      /\ Len(s) \in Nat
  OBVIOUS
<1>. DEFINE r == Append(s, b)
<1>. HIDE DEF r
<1>2. Life!In(r) = Life!In(s) \cup {b}
  BY <1>1 DEF Life!In, r
<1>3. NoDuplicates(s) /\ b \notin Life!In(s) => NoDuplicates(r)
  BY <1>1 DEF Life!In, NoDuplicates, r
<1> QED
  BY <1>1, <1>2, <1>3 DEF r

\* What Tail leaves.
LEMMA InTail ==
  ASSUME NEW s \in Seq(Bio), s # <<>>, NoDuplicates(s)
  PROVE  /\ Head(s) \in Life!In(s) /\ Head(s) \in Bio
         /\ Tail(s) \in Seq(Bio)
         /\ Life!In(Tail(s)) = Life!In(s) \ {Head(s)}
         /\ NoDuplicates(Tail(s))
<1>1. /\ Head(s) = s[1] /\ Head(s) \in Bio /\ Tail(s) \in Seq(Bio)
      /\ Len(s) \in Nat /\ Len(s) >= 1 /\ Len(Tail(s)) = Len(s) - 1
      /\ \A i \in 1 .. Len(s) - 1 : Tail(s)[i] = s[i + 1]
      /\ DOMAIN s = 1 .. Len(s) /\ DOMAIN Tail(s) = 1 .. Len(s) - 1
  OBVIOUS
<1>. DEFINE r == Tail(s)
<1>. HIDE DEF r
<1>2. NoDuplicates(r)
  BY <1>1 DEF NoDuplicates, r
<1>3. Life!In(r) \subseteq Life!In(s) \ {Head(s)}
  BY <1>1 DEF Life!In, NoDuplicates, r
<1>4. ASSUME NEW b \in Life!In(s), b # Head(s) PROVE b \in Life!In(r)
  <2>1. PICK i \in 1 .. Len(s) : b = s[i]
    BY <1>1 DEF Life!In
  <2>2. i - 1 \in 1 .. Len(s) - 1 /\ r[i - 1] = s[i]
    BY <1>1, <1>4, <2>1 DEF r
  <2> QED
    BY <1>1, <2>1, <2>2 DEF Life!In, r
<1>5. Head(s) \in Life!In(s)
  BY <1>1 DEF Life!In
<1>6. Life!In(r) = Life!In(s) \ {Head(s)}
  BY <1>3, <1>4
<1> QED
  BY <1>1, <1>2, <1>5, <1>6 DEF r

\* The function that Without unfolds: keep[n] is what is left of the first n
\* members of s.
Unfolds(keep, s, S) ==
    keep = [i \in 0 .. Len(s) |->
               IF i = 0 THEN <<>>
               ELSE IF s[i] \in S THEN keep[i - 1] ELSE Append(keep[i - 1], s[i])]

\* There is such a function.
LEMMA Kept ==
  ASSUME NEW s \in Seq(Bio), NEW S
  PROVE  \E keep : Unfolds(keep, s, S)
<1>. DEFINE Step(f, i) == IF i = 0 THEN <<>>
                          ELSE IF s[i] \in S THEN f[i - 1]
                                             ELSE Append(f[i - 1], s[i])
            Good(n) == \E f \in [0 .. n -> Seq(Bio)] :
                           \A i \in 0 .. n : f[i] = Step(f, i)
            T == {n \in 0 .. Len(s) : ~ Good(n)}
<1>1. Len(s) \in Nat
  OBVIOUS
<1>2. Good(0)
  <2>. DEFINE f == [i \in 0 .. 0 |-> <<>>]
  <2>1. f \in [0 .. 0 -> Seq(Bio)] /\ \A i \in 0 .. 0 : f[i] = Step(f, i)
    OBVIOUS
  <2> QED
    BY <2>1
<1>3. ASSUME NEW n \in 1 .. Len(s), Good(n - 1) PROVE Good(n)
  <2>1. PICK f \in [0 .. n - 1 -> Seq(Bio)] :
                 \A i \in 0 .. n - 1 : f[i] = Step(f, i)
    BY <1>3
  <2>2. s[n] \in Bio /\ f[n - 1] \in Seq(Bio)
    BY <1>1
  <2>. DEFINE g == [i \in 0 .. n |-> IF i = n THEN Step(f, n) ELSE f[i]]
  <2>3. Step(f, n) \in Seq(Bio)
    BY <2>2
  <2>4. g \in [0 .. n -> Seq(Bio)]
    BY <1>1, <2>3
  <2>5. ASSUME NEW i \in 0 .. n PROVE g[i] = Step(g, i)
    <3>1. CASE i = n
      <4>1. g[n - 1] = f[n - 1] /\ g[n] = Step(f, n)
        BY <1>1
      <4> QED
        BY <3>1, <4>1
    <3>2. CASE i # n
      <4>1. i \in 0 .. n - 1 /\ (i # 0 => i - 1 \in 0 .. n - 1)
        BY <1>1, <3>2
      <4>2. g[i] = f[i] /\ (i # 0 => g[i - 1] = f[i - 1])
        BY <1>1, <3>2, <4>1
      <4> QED
        BY <2>1, <4>1, <4>2
    <3> QED
      BY <3>1, <3>2
  <2>. HIDE DEF g
  <2> QED
    BY <2>4, <2>5
<1>4. T = {}
  <2>1. SUFFICES ASSUME T # {} PROVE FALSE
    OBVIOUS
  <2>. HIDE DEF Good
  <2>2. T \subseteq Nat
    BY <1>1
  <2>3. PICK n \in T : \A m \in T : n <= m
    BY <2>1, <2>2, Least
  <2>4. n # 0
    BY <1>2, <2>3
  <2>5. n - 1 \in 0 .. Len(s) /\ n \in 1 .. Len(s)
    BY <1>1, <2>4
  <2>6. Good(n - 1)
    BY <1>1, <2>3, <2>5
  <2> QED
    BY <1>3, <2>5, <2>6
<1>5. Good(Len(s))
  <2>. HIDE DEF Good
  <2> QED
    BY <1>1, <1>4
<1>6. PICK f \in [0 .. Len(s) -> Seq(Bio)] : \A i \in 0 .. Len(s) : f[i] = Step(f, i)
  BY <1>5
<1>7. Unfolds(f, s, S)
  BY <1>6 DEF Unfolds
<1> QED
  BY <1>7

\* What the filter leaves.
LEMMA InWithout ==
  ASSUME NEW s \in Seq(Bio), NEW S
  PROVE  /\ Life!Without(s, S) \in Seq(Bio)
         /\ Life!In(Life!Without(s, S)) = Life!In(s) \ S
         /\ NoDuplicates(s) => NoDuplicates(Life!Without(s, S))
<1>. DEFINE keep == CHOOSE f : Unfolds(f, s, S)
            First(n) == {s[i] : i \in 1 .. n}
            Good(n) == /\ keep[n] \in Seq(Bio)
                       /\ Life!In(keep[n]) = First(n) \ S
                       /\ NoDuplicates(s) => NoDuplicates(keep[n])
            T == {n \in 0 .. Len(s) : ~ Good(n)}
<1>1. Life!Without(s, S) = keep[Len(s)]
  BY DEF Life!Without, Unfolds
<1>2. Unfolds(keep, s, S)
  BY Kept, Zenon
<1>. HIDE DEF keep
<1>3. Len(s) \in Nat /\ DOMAIN s = 1 .. Len(s)
  OBVIOUS
<1>4. ASSUME NEW i \in 0 .. Len(s)
      PROVE  keep[i] = IF i = 0 THEN <<>>
                       ELSE IF s[i] \in S THEN keep[i - 1]
                                          ELSE Append(keep[i - 1], s[i])
  BY <1>2 DEF Unfolds
<1>5. Good(0)
  <2>1. keep[0] = <<>>
    BY <1>3, <1>4
  <2>2. Life!In(<<>>) = {} /\ First(0) = {} /\ NoDuplicates(<<>>)
    BY DEF Life!In, NoDuplicates
  <2> QED
    BY <2>1, <2>2
<1>6. ASSUME NEW n \in 1 .. Len(s), Good(n - 1) PROVE Good(n)
  <2>1. First(n) = First(n - 1) \cup {s[n]} /\ s[n] \in Bio
    BY <1>3
  <2>2. NoDuplicates(s) => s[n] \notin First(n - 1)
    BY <1>3 DEF NoDuplicates
  <2>3. n \in 0 .. Len(s) /\ n # 0
    BY <1>3
  <2>. HIDE DEF First
  <2>4. CASE s[n] \in S
    <3>1. keep[n] = keep[n - 1]
      BY <1>4, <2>3, <2>4
    <3> QED
      BY <1>6, <2>1, <2>4, <3>1
  <2>5. CASE s[n] \notin S
    <3>1. keep[n] = Append(keep[n - 1], s[n])
      BY <1>4, <2>3, <2>5
    <3>2. /\ Life!In(keep[n]) = Life!In(keep[n - 1]) \cup {s[n]}
          /\ keep[n] \in Seq(Bio)
          /\ NoDuplicates(keep[n - 1]) /\ s[n] \notin Life!In(keep[n - 1]) =>
                NoDuplicates(keep[n])
      <4>1. keep[n - 1] \in Seq(Bio)
        BY <1>6
      <4>. HIDE DEF Good
      <4> QED
        BY <2>1, <3>1, <4>1, InAppend
    <3>3. NoDuplicates(s) => NoDuplicates(keep[n])
      BY <1>6, <2>2, <3>2
    <3>4. Life!In(keep[n]) = First(n) \ S
      BY <1>6, <2>1, <2>5, <3>2
    <3> QED
      BY <3>2, <3>3, <3>4
  <2> QED
    BY <2>4, <2>5
<1>. HIDE DEF Good
<1>7. T = {}
  <2>1. SUFFICES ASSUME T # {} PROVE FALSE
    OBVIOUS
  <2>2. T \subseteq Nat
    BY <1>3
  <2>3. PICK n \in T : \A m \in T : n <= m
    BY <2>1, <2>2, Least
  <2>4. n - 1 \in 0 .. Len(s) /\ n \in 1 .. Len(s)
    BY <1>3, <1>5, <2>3
  <2>5. Good(n - 1)
    BY <1>3, <2>3, <2>4
  <2> QED
    BY <1>6, <2>4, <2>5
<1>8. Good(Len(s))
  BY <1>3, <1>7
<1>9. First(Len(s)) = Life!In(s)
  BY <1>3 DEF Life!In
<1>. HIDE DEF First
<1> QED
  BY <1>1, <1>8, <1>9 DEF Good

\* A completed request is appended to the completion list.
LEMMA ConcatAppend ==
  ASSUME NEW s \in Seq(Bio), NEW l \in Seq(Bio), NEW b \in Bio
  PROVE  s \o Append(l, b) = Append(s \o l, b)
OBVIOUS

\* The first one is taken from bio_list.
LEMMA Concat ==
  ASSUME NEW s \in Seq(Bio), NEW l \in Seq(Bio)
  PROVE  /\ s \o l \in Seq(Bio)
         /\ s # <<>> => /\ s \o l # <<>>
                        /\ Head(s \o l) = Head(s) /\ Tail(s \o l) = Tail(s) \o l
         /\ s \o <<>> = s /\ <<>> \o s = s
         /\ Life!In(l) \subseteq Life!In(s \o l)
         /\ NoDuplicates(s \o l) => NoDuplicates(l)
<1>1. s \o l \in Seq(Bio) /\ s \o <<>> = s /\ <<>> \o s = s
  OBVIOUS
<1>2. ASSUME s # <<>>
      PROVE  s \o l # <<>> /\ Head(s \o l) = Head(s) /\ Tail(s \o l) = Tail(s) \o l
  <2>1. s \o l # <<>> /\ Head(s \o l) = Head(s)
    BY <1>2
  <2>2. Tail(s \o l) = Tail(s) \o l
    BY <1>2
  <2> QED
    BY <2>1, <2>2
<1>3. /\ Len(s) \in Nat /\ Len(l) \in Nat
      /\ Len(s \o l) = Len(s) + Len(l)
      /\ \A i \in 1 .. Len(l) : (s \o l)[Len(s) + i] = l[i]
      /\ DOMAIN l = 1 .. Len(l) /\ DOMAIN (s \o l) = 1 .. Len(s) + Len(l)
  OBVIOUS
<1>. DEFINE r == s \o l
<1>. HIDE DEF r
<1>4. Life!In(l) \subseteq Life!In(r)
  <2>1. ASSUME NEW i \in 1 .. Len(l) PROVE Len(s) + i \in DOMAIN r /\ l[i] = r[Len(s) + i]
    BY <1>3 DEF r
  <2> QED
    BY <1>3, <2>1 DEF Life!In
<1>5. NoDuplicates(r) => NoDuplicates(l)
  <2>1. ASSUME NEW i \in 1 .. Len(l)
        PROVE  Len(s) + i \in 1 .. Len(r) /\ l[i] = r[Len(s) + i]
    BY <1>3 DEF r
  <2>2. ASSUME NoDuplicates(r), NEW i \in 1 .. Len(l), NEW j \in 1 .. Len(l),
               l[i] = l[j]
        PROVE  i = j
    <3>1. Len(s) + i = Len(s) + j
      BY <2>1, <2>2 DEF NoDuplicates
    <3> QED
      BY <1>3, <3>1
  <2> QED
    BY <2>2 DEF NoDuplicates
<1> QED
  BY <1>1, <1>2, <1>4, <1>5 DEF r

-----------------------------------------------------------------------------
(* The completion list. *)

\* A sequence without duplicates is not longer than Bio has members.
LEMMA NotLonger ==
  ASSUME NEW s \in Seq(Bio), NoDuplicates(s)
  PROVE  s \in UNION {[1 .. n -> Bio] : n \in 0 .. Cardinality(Bio)}
<1>1. Len(s) \in Nat /\ s \in [1 .. Len(s) -> Bio]
  OBVIOUS
<1>2. s \in Injection(1 .. Len(s), Bio)
  BY <1>1 DEF NoDuplicates, Injection, IsInjective
<1>3. Cardinality(1 .. Len(s)) <= Cardinality(Bio)
  BY <1>2, BioAssumption, FS_Injection
<1>4. Cardinality(1 .. Len(s)) = Len(s) /\ Cardinality(Bio) \in Nat
  <2>1. Cardinality(1 .. Len(s)) = IF 1 > Len(s) THEN 0 ELSE Len(s) - 1 + 1
    BY <1>1, FS_Interval
  <2> QED
    BY <1>1, <2>1, BioAssumption, FS_CardinalityType
<1> QED
  BY <1>1, <1>3, <1>4

\* The pointers determine the list.
LEMMA LinksOnce ==
  ASSUME NEW next, NEW first, NEW s \in Seq(Bio), NEW r \in Seq(Bio),
         Links(next, s, first), Links(next, r, first)
  PROVE  s = r
<1>. DEFINE m == Len(s)
            n == Len(r)
            T == {k \in Nat : k < m /\ k < n /\ s[m - k] # r[n - k]}
<1>1. /\ m \in Nat /\ n \in Nat
      /\ \A i \in 1 .. m : s[i] \in Bio
      /\ \A i \in 1 .. n : r[i] \in Bio
      /\ m = 0 <=> s = <<>>
      /\ n = 0 <=> r = <<>>
  OBVIOUS
<1>2. /\ \A i \in 1 .. m : next[s[i]] = IF i = 1 THEN Null ELSE s[i - 1]
      /\ \A i \in 1 .. n : next[r[i]] = IF i = 1 THEN Null ELSE r[i - 1]
      /\ first = IF m = 0 THEN Null ELSE s[m]
      /\ first = IF n = 0 THEN Null ELSE r[n]
  BY <1>1 DEF Links
<1>3. Null \notin Bio
  BY NullAssumption
<1>. HIDE DEF m, n
<1>4. T = {}
  <2>1. SUFFICES ASSUME T # {} PROVE FALSE
    OBVIOUS
  <2>2. PICK k \in T : \A j \in T : k <= j
    <3>1. T \subseteq Nat
      OBVIOUS
    <3>. HIDE DEF T
    <3> QED
      BY <2>1, <3>1, Least
  <2>3. k # 0
    BY <1>1, <1>2, <2>2
  <2>4. k - 1 \in Nat /\ k - 1 < m /\ k - 1 < n /\ k - 1 \notin T
    <3>1. k \in Nat /\ k < m /\ k < n
      OBVIOUS
    <3>2. ~ (k <= k - 1)
      BY <3>1
    <3>3. k - 1 \notin T
      <4>. HIDE DEF T
      <4> QED
        BY <2>2, <3>2
    <3> QED
      BY <1>1, <2>3, <3>1, <3>3
  <2>5. s[m - (k - 1)] = r[n - (k - 1)]
    BY <2>4
  <2>6. /\ m - (k - 1) \in 1 .. m /\ m - (k - 1) # 1 /\ m - (k - 1) - 1 = m - k
        /\ n - (k - 1) \in 1 .. n /\ n - (k - 1) # 1 /\ n - (k - 1) - 1 = n - k
    BY <1>1, <2>2, <2>3
  <2>7. next[s[m - (k - 1)]] = s[m - k] /\ next[r[n - (k - 1)]] = r[n - k]
    BY <1>2, <2>6
  <2> QED
    BY <2>2, <2>5, <2>7
<1>5. ASSUME NEW k \in Nat, k < m, k < n PROVE s[m - k] = r[n - k]
  BY <1>4, <1>5
<1>6. m = n
  <2>1. CASE m = 0 \/ n = 0
    BY <1>1, <1>2, <1>3, <2>1
  <2>2. CASE m # 0 /\ n # 0 /\ m < n
    <3>1. s[1] = r[n - (m - 1)]
      <4>1. m - 1 \in Nat /\ m - 1 < m /\ m - 1 < n /\ m - (m - 1) = 1
        BY <1>1, <2>2
      <4> QED
        BY <1>5, <4>1
    <3>2. /\ n - (m - 1) \in 1 .. n /\ n - (m - 1) # 1 /\ 1 \in 1 .. m
          /\ n - (m - 1) - 1 \in 1 .. n
      BY <1>1, <2>2
    <3>3. next[s[1]] = Null /\ next[r[n - (m - 1)]] \in Bio
      BY <1>1, <1>2, <3>2
    <3> QED
      BY <1>3, <3>1, <3>3
  <2>3. CASE m # 0 /\ n # 0 /\ n < m
    <3>1. r[1] = s[m - (n - 1)]
      <4>1. n - 1 \in Nat /\ n - 1 < m /\ n - 1 < n /\ n - (n - 1) = 1
        BY <1>1, <2>3
      <4> QED
        BY <1>5, <4>1
    <3>2. /\ m - (n - 1) \in 1 .. m /\ m - (n - 1) # 1 /\ 1 \in 1 .. n
          /\ m - (n - 1) - 1 \in 1 .. m
      BY <1>1, <2>3
    <3>3. next[r[1]] = Null /\ next[s[m - (n - 1)]] \in Bio
      BY <1>1, <1>2, <3>2
    <3> QED
      BY <1>3, <3>1, <3>3
  <2> QED
    BY <1>1, <2>1, <2>2, <2>3
<1>7. ASSUME NEW i \in 1 .. m PROVE s[i] = r[i]
  <2>1. m - i \in Nat /\ m - i < m /\ m - i < n /\ m - (m - i) = i /\ n - (m - i) = i
    BY <1>1, <1>6
  <2> QED
    BY <1>5, <2>1
<1> QED
  BY <1>6, <1>7 DEF m, n

\* A list without duplicates that is linked is the one that is reversed.
LEMMA ReversedIs ==
  ASSUME NEW next, NEW first, NEW s \in Seq(Bio), NoDuplicates(s),
         Links(next, s, first)
  PROVE  Reversed(next, first) = s
<1>. DEFINE Lists == UNION {[1 .. n -> Bio] : n \in 0 .. Cardinality(Bio)}
<1>1. s \in Lists
  BY NotLonger
<1>2. Lists \subseteq Seq(Bio)
  <2>1. Cardinality(Bio) \in Nat
    BY BioAssumption, FS_CardinalityType
  <2> QED
    BY <2>1
<1>. HIDE DEF Lists
<1>3. Reversed(next, first) \in Lists /\ Links(next, Reversed(next, first), first)
  BY <1>1, Zenon DEF Reversed, Lists
<1> QED
  BY <1>2, <1>3, LinksOnce

\* A request that is linked to the head becomes the head.
LEMMA LinksAppend ==
  ASSUME NEW next, NEW first, NEW s \in Seq(Bio), NEW b \in Bio,
         Links(next, s, first), next[b] = first
  PROVE  Links(next, Append(s, b), b)
<1>1. /\ Len(s) \in Nat /\ Len(Append(s, b)) = Len(s) + 1
      /\ \A i \in 1 .. Len(s) : Append(s, b)[i] = s[i]
      /\ Append(s, b)[Len(s) + 1] = b /\ Append(s, b) # <<>>
      /\ s = <<>> <=> Len(s) = 0
  OBVIOUS
<1>. DEFINE r == Append(s, b)
<1>. HIDE DEF r
<1>2. b = IF r = <<>> THEN Null ELSE r[Len(r)]
  BY <1>1 DEF r
<1>3. ASSUME NEW i \in 1 .. Len(r)
      PROVE  next[r[i]] = IF i = 1 THEN Null ELSE r[i - 1]
  <2>1. CASE i = Len(s) + 1
    <3>1. next[r[i]] = IF s = <<>> THEN Null ELSE s[Len(s)]
      BY <1>1, <2>1 DEF Links, r
    <3>2. Len(s) # 0 => r[i - 1] = s[Len(s)]
      BY <1>1, <2>1 DEF r
    <3> QED
      BY <1>1, <2>1, <3>1, <3>2
  <2>2. CASE i # Len(s) + 1
    <3>1. i \in 1 .. Len(s) /\ (i # 1 => i - 1 \in 1 .. Len(s))
      BY <1>1, <2>2 DEF r
    <3>2. r[i] = s[i] /\ (i # 1 => r[i - 1] = s[i - 1])
      BY <1>1, <3>1 DEF r
    <3>3. next[s[i]] = IF i = 1 THEN Null ELSE s[i - 1]
      BY <3>1 DEF Links
    <3> QED
      BY <3>2, <3>3
  <2> QED
    BY <2>1, <2>2
<1> QED
  BY <1>2, <1>3 DEF Links, r

\* A pointer that is not on the list does not matter.
LEMMA LinksKept ==
  ASSUME NEW next, NEW next2, NEW first, NEW s \in Seq(Bio), Links(next, s, first),
         \A b \in Life!In(s) : next2[b] = next[b]
  PROVE  Links(next2, s, first)
<1>1. \A i \in 1 .. Len(s) : s[i] \in Life!In(s)
  BY DEF Life!In
<1> QED
  BY <1>1 DEF Links

-----------------------------------------------------------------------------
(* Requests move from one place to the next. *)

\* A request of its own memory is queued.
LEMMA PlaceEnqueue ==
  ASSUME NEW q, NEW bios, NEW d, NEW used, InOnePlace(q, bios, d, used),
         NEW b \in Bio, b \notin used
  PROVE  InOnePlace(Append(q, b), bios, d, used \cup {b})
<1>1. q \in Seq(Bio) /\ b \notin Life!In(q) /\ NoDuplicates(q)
  BY DEF InOnePlace
<1>2. /\ Append(q, b) \in Seq(Bio)
      /\ Life!In(Append(q, b)) = Life!In(q) \cup {b}
      /\ NoDuplicates(Append(q, b))
  BY <1>1, InAppend
<1> QED
  BY <1>2 DEF InOnePlace

\* The first request of the queue goes to the backend.
LEMMA PlaceDequeue ==
  ASSUME NEW q, NEW bios, NEW d, NEW used, InOnePlace(q, bios, d, used), q # <<>>
  PROVE  InOnePlace(Tail(q), bios \cup {Head(q)}, d, used)
<1>1. q \in Seq(Bio) /\ NoDuplicates(q)
  BY DEF InOnePlace
<1>2. /\ Head(q) \in Life!In(q) /\ Head(q) \in Bio
      /\ Tail(q) \in Seq(Bio) /\ NoDuplicates(Tail(q))
      /\ Life!In(Tail(q)) = Life!In(q) \ {Head(q)}
  BY <1>1, InTail
<1> QED
  BY <1>2 DEF InOnePlace

\* Queued requests are canceled.
LEMMA PlaceCancel ==
  ASSUME NEW q, NEW bios, NEW d, NEW used, InOnePlace(q, bios, d, used),
         NEW S, S \subseteq Life!In(q)
  PROVE  InOnePlace(Life!Without(q, S), bios, d, used \ S)
<1>1. q \in Seq(Bio) /\ NoDuplicates(q)
  BY DEF InOnePlace
<1>2. /\ Life!Without(q, S) \in Seq(Bio) /\ NoDuplicates(Life!Without(q, S))
      /\ Life!In(Life!Without(q, S)) = Life!In(q) \ S
  BY <1>1, InWithout
<1> QED
  BY <1>2 DEF InOnePlace

\* A request of the backend is completed.
LEMMA PlaceComplete ==
  ASSUME NEW q, NEW bios, NEW d, NEW used, InOnePlace(q, bios, d, used),
         NEW b \in bios
  PROVE  InOnePlace(q, bios \ {b}, Append(d, b), used)
<1>1. d \in Seq(Bio) /\ b \in Bio /\ b \notin Life!In(d) /\ NoDuplicates(d)
  BY DEF InOnePlace
<1>2. /\ Append(d, b) \in Seq(Bio)
      /\ Life!In(Append(d, b)) = Life!In(d) \cup {b}
      /\ NoDuplicates(Append(d, b))
  BY <1>1, InAppend
<1> QED
  BY <1>2 DEF InOnePlace

\* The first completed request is reported.
LEMMA PlaceReport ==
  ASSUME NEW q, NEW bios, NEW d, NEW used, InOnePlace(q, bios, d, used), d # <<>>
  PROVE  InOnePlace(q, bios, Tail(d), used \ {Head(d)}) /\ Head(d) \in used
<1>1. d \in Seq(Bio) /\ NoDuplicates(d)
  BY DEF InOnePlace
<1>2. /\ Head(d) \in Life!In(d) /\ Head(d) \in Bio
      /\ Tail(d) \in Seq(Bio) /\ NoDuplicates(Tail(d))
      /\ Life!In(Tail(d)) = Life!In(d) \ {Head(d)}
  BY <1>1, InTail
<1> QED
  BY <1>2 DEF InOnePlace

\* req_complete frees the requests it reports and counts them off.
LEMMA ReqComplete ==
  ASSUME TypeOK, Counted, NEW bios, bios \subseteq Bio, req_complete(bios)
  PROVE  /\ vring' \in [Bio -> Vring \cup {Null}]
         /\ num_in_flight' \in [Vring -> Nat]
         /\ InUse' = InUse \ bios
         /\ Counted'
<1>1. vring \in [Bio -> Vring \cup {Null}] /\ num_in_flight \in [Vring -> Nat]
  BY DEF TypeOK
<1>2. /\ vring' = [b \in Bio |-> IF b \in bios THEN Null ELSE vring[b]]
      /\ num_in_flight' = [v \in Vring |->
             num_in_flight[v] - Cardinality({b \in bios : vring[b] = v})]
  BY Zenon DEF req_complete
<1>3. vring' \in [Bio -> Vring \cup {Null}] /\ InUse' = InUse \ bios
  BY <1>1, <1>2 DEF InUse
<1>4. ASSUME NEW v \in Vring
      PROVE  /\ num_in_flight'[v] = Cardinality({b \in Bio : vring'[b] = v})
             /\ num_in_flight'[v] \in Nat
  <2>. DEFINE Of == {b \in Bio : vring[b] = v}
  <2>1. /\ IsFiniteSet(Of \ bios)
        /\ Cardinality(Of \ bios) = Cardinality(Of) - Cardinality(Of \cap bios)
    <3>1. IsFiniteSet(Of)
      BY BioAssumption, FS_Subset
    <3>. HIDE DEF Of
    <3> QED
      BY <3>1, FS_Difference
  <2>2. {b \in Bio : vring'[b] = v} = Of \ bios
    BY <1>2, NullAssumption
  <2>3. {b \in bios : vring[b] = v} = Of \cap bios
    OBVIOUS
  <2>4. num_in_flight[v] = Cardinality(Of)
    BY DEF Counted
  <2>5. Cardinality(Of \ bios) \in Nat
    BY <2>1, FS_CardinalityType
  <2>. HIDE DEF Of
  <2>6. num_in_flight'[v] = Cardinality(Of \ bios)
    BY <1>2, <2>1, <2>3, <2>4
  <2> QED
    BY <2>2, <2>5, <2>6
<1>5. num_in_flight' \in [Vring -> Nat]
  BY <1>2, <1>4
<1> QED
  BY <1>3, <1>4, <1>5 DEF Counted

-----------------------------------------------------------------------------
(* The steps. *)

\* What a step does to the requests that RequestLife describes.
LifeStep == [Life!Next]_(Life!vars)

\* The steps that move no request.
LEMMA Unmoved ==
  ASSUME QueueInv,
         UNCHANGED <<submission, backend, vring, num_in_flight, bio_list, slh_first,
                     sle_next>>
  PROVE  /\ ListInv' /\ Counted'
         /\ InOnePlace(submission, backend, Unreported, InUse)'
         /\ LifeStep
<1>1. Unreported' = Unreported /\ InUse' = InUse
  BY Zenon DEF Unreported, InUse
<1>2. ListInv' /\ Counted'
  BY Zenon DEF QueueInv, ListInv, Counted
<1>3. InOnePlace(submission', backend', Unreported', InUse')
  BY <1>1, Zenon DEF QueueInv
<1>4. LifeStep
  BY <1>1, Zenon DEF LifeStep, Life!vars
<1> QED
  BY <1>2, <1>3, <1>4

\* What is used of the type invariant in a step.
LEMMA QueueTypes ==
  ASSUME QueueInv
  PROVE  /\ submission \in Seq(Bio) /\ bio_list \in Seq(Bio)
         /\ vring \in [Bio -> Vring \cup {Null}]
         /\ backend \subseteq Bio
         /\ slh_first \in Bio \cup {Null}
         /\ sle_next \in [Bio -> Bio \cup {Null}]
         /\ pc \in [Thread -> {"idle", "read", "cmpxchg", "schedule"}]
         /\ bio \in [Thread -> Bio \cup {Null}]
         /\ old_slh_first \in [Thread -> Bio \cup {Null}]
         /\ num_in_flight \in [Vring -> Nat]
         /\ Null \notin Bio /\ Null \notin Vring
  BY NullAssumption DEF QueueInv, TypeOK

\* vhd_enqueue_block_request.
LEMMA EnqueueStep ==
  ASSUME QueueInv, NEW b \in Bio, NEW v \in Vring, vhd_enqueue_block_request(b, v)
  PROVE  QueueInv' /\ LifeStep
<1>1. /\ vring[b] = Null /\ vring' = [vring EXCEPT ![b] = v]
      /\ num_in_flight' = [num_in_flight EXCEPT ![v] = @ + 1]
      /\ submission' = Append(submission, b)
      /\ state = "up" /\ running = {}
      /\ UNCHANGED <<backend, slh_first, sle_next, pc, bio, old_slh_first, scheduled,
                     running, stolen, bio_list, state>>
  BY Zenon DEF vhd_enqueue_block_request, Idle, completionVars, threadVars, bhVars
<1>2. Unreported' = Unreported
  BY <1>1, Zenon DEF Unreported
<1>3. InUse' = InUse \cup {b} /\ b \notin InUse
  BY <1>1, QueueTypes DEF InUse
<1>4. InOnePlace(submission', backend', Unreported', InUse')
  BY <1>1, <1>2, <1>3, PlaceEnqueue, Zenon DEF QueueInv
<1>5. Counted'
  <2>1. ASSUME NEW w \in Vring
        PROVE  num_in_flight'[w] = Cardinality({c \in Bio : vring'[c] = w})
    <3>. DEFINE Of == {c \in Bio : vring[c] = w}
    <3>1. IsFiniteSet(Of)
      BY BioAssumption, FS_Subset
    <3>2. num_in_flight[w] = Cardinality(Of)
      BY DEF QueueInv, Counted
    <3>3. CASE w = v
      <4>1. {c \in Bio : vring'[c] = w} = Of \cup {b} /\ b \notin Of
        BY <1>1, <3>3, QueueTypes
      <4>2. num_in_flight'[w] = num_in_flight[w] + 1
        BY <1>1, <3>3, QueueTypes
      <4>. HIDE DEF Of
      <4>3. Cardinality(Of \cup {b}) = Cardinality(Of) + 1
        BY <3>1, <4>1, FS_AddElement
      <4> QED
        BY <3>2, <4>1, <4>2, <4>3
    <3>4. CASE w # v
      <4>1. {c \in Bio : vring'[c] = w} = Of
        BY <1>1, <3>4, QueueTypes
      <4>2. num_in_flight'[w] = num_in_flight[w]
        BY <1>1, <3>4, QueueTypes
      <4> QED
        BY <3>2, <4>1, <4>2
    <3> QED
      BY <3>3, <3>4
  <2> QED
    BY <2>1 DEF Counted
<1>6. TypeOK'
  <2>1. /\ vring' \in [Bio -> Vring \cup {Null}]
        /\ num_in_flight' \in [Vring -> Nat]
        /\ submission' \in Seq(Bio)
    BY <1>1, QueueTypes
  <2> QED
    BY <1>1, <2>1, Zenon DEF QueueInv, TypeOK, BHs!TypeOK
<1>7. ThreadInv' /\ ListInv'
  BY <1>1, Zenon DEF QueueInv, ThreadInv, ListInv
<1>8. (~stolen' => bio_list' = <<>>) /\ state' # "released"
  BY <1>1 DEF QueueInv
<1>9. LifeStep
  <2>1. b \notin Life!In(submission) \cup backend \cup Life!In(Unreported)
    BY <1>3 DEF QueueInv, InOnePlace
  <2>2. Life!Enqueue(b)
    BY <1>1, <1>2, <2>1, Zenon DEF Life!Enqueue
  <2> QED
    BY <2>2, Zenon DEF LifeStep, Life!Next
<1> QED
  BY <1>4, <1>5, <1>6, <1>7, <1>8, <1>9, Zenon DEF QueueInv

\* vhd_dequeue_request.
LEMMA DequeueStep ==
  ASSUME QueueInv, vhd_dequeue_request
  PROVE  QueueInv' /\ LifeStep
<1>1. /\ submission # <<>>
      /\ backend' = backend \cup {Head(submission)}
      /\ submission' = Tail(submission)
      /\ state = "up"
      /\ UNCHANGED <<vring, slh_first, sle_next, pc, bio, old_slh_first, scheduled,
                     running, stolen, bio_list, num_in_flight, state>>
  BY Zenon DEF vhd_dequeue_request, Idle, completionVars, threadVars, bhVars
<1>2. Unreported' = Unreported /\ InUse' = InUse
  BY <1>1, Zenon DEF Unreported, InUse
<1>3. InOnePlace(submission', backend', Unreported', InUse')
  BY <1>1, <1>2, PlaceDequeue, Zenon DEF QueueInv
<1>4. TypeOK'
  <2>1. submission' \in Seq(Bio) /\ backend' \subseteq Bio
    BY <1>3, Zenon DEF InOnePlace
  <2> QED
    BY <1>1, <2>1, Zenon DEF QueueInv, TypeOK, BHs!TypeOK
<1>5. ThreadInv'
  BY <1>1 DEF QueueInv, ThreadInv
<1>6. ListInv' /\ Counted'
  BY <1>1, Zenon DEF QueueInv, ListInv, Counted
<1>7. (~stolen' => bio_list' = <<>>) /\ state' # "released"
  BY <1>1 DEF QueueInv
<1>8. LifeStep
  <2>1. Life!Dequeue
    BY <1>1, <1>2, Zenon DEF Life!Dequeue
  <2> QED
    BY <2>1, Zenon DEF LifeStep, Life!Next
<1> QED
  BY <1>3, <1>4, <1>5, <1>6, <1>7, <1>8, Zenon DEF QueueInv

\* vhd_cancel_queued_requests.
LEMMA CancelStep ==
  ASSUME QueueInv, NEW v \in Vring, vhd_cancel_queued_requests(v)
  PROVE  QueueInv' /\ LifeStep
<1>. DEFINE bios == {submission[i] : i \in Walk(v)}
<1>1. /\ req_complete(bios)
      /\ submission' = Life!Without(submission, bios)
      /\ state' \in {"up", "fault"}
      /\ UNCHANGED <<backend, slh_first, sle_next, pc, bio, old_slh_first, scheduled,
                     running, stolen, bio_list>>
  BY Zenon DEF vhd_cancel_queued_requests, Idle, completionVars, threadVars, bhVars
<1>2. bios \subseteq Life!In(submission) /\ bios \subseteq Bio
  <2>1. Walk(v) \subseteq 1 .. Len(submission)
    BY DEF Walk
  <2>2. DOMAIN submission = 1 .. Len(submission)
    BY QueueTypes
  <2> QED
    BY <2>1, <2>2, QueueTypes DEF Life!In
<1>. HIDE DEF bios
<1>3. /\ vring' \in [Bio -> Vring \cup {Null}]
      /\ num_in_flight' \in [Vring -> Nat]
      /\ InUse' = InUse \ bios
      /\ Counted'
  BY <1>1, <1>2, ReqComplete DEF QueueInv
<1>4. Unreported' = Unreported
  BY <1>1, Zenon DEF Unreported
<1>5. InOnePlace(submission', backend', Unreported', InUse')
  BY <1>1, <1>2, <1>3, <1>4, PlaceCancel, Zenon DEF QueueInv
<1>6. TypeOK'
  <2>1. submission' \in Seq(Bio) /\ state' \in {"up", "released", "fault"}
    BY <1>1, <1>5 DEF InOnePlace
  <2> QED
    BY <1>1, <1>3, <2>1, Zenon DEF QueueInv, TypeOK, BHs!TypeOK
<1>7. ThreadInv' /\ ListInv'
  BY <1>1, Zenon DEF QueueInv, ThreadInv, ListInv
<1>8. (~stolen' => bio_list' = <<>>) /\ state' # "released"
  BY <1>1 DEF QueueInv
<1>9. LifeStep
  <2>1. Life!Cancel(bios)
    BY <1>1, <1>4, Zenon DEF Life!Cancel
  <2> QED
    BY <1>2, <2>1, Zenon DEF LifeStep, Life!Next
<1> QED
  BY <1>3, <1>5, <1>6, <1>7, <1>8, <1>9, Zenon DEF QueueInv

\* vhd_release_request_queue.
LEMMA ReleaseStep ==
  ASSUME QueueInv, vhd_release_request_queue
  PROVE  QueueInv' /\ LifeStep
<1>1. /\ \A v \in Vring : num_in_flight[v] = 0
      /\ state' \in {"released", "fault"}
      /\ scheduled' = scheduled \ {CompletionBh} /\ running' = running
      /\ UNCHANGED <<submission, backend, vring, num_in_flight, bio_list, slh_first,
                     sle_next>>
      /\ UNCHANGED <<pc, bio, old_slh_first, stolen>>
  BY Zenon DEF vhd_release_request_queue, completionVars, threadVars, BHs!Revoke
<1>2. /\ ListInv' /\ Counted'
      /\ InOnePlace(submission, backend, Unreported, InUse)'
      /\ LifeStep
  BY <1>1, Unmoved
<1>3. TypeOK'
  <2>1. scheduled' \subseteq {CompletionBh} /\ state' \in {"up", "released", "fault"}
    BY <1>1 DEF QueueInv, TypeOK, BHs!TypeOK
  <2> QED
    BY <1>1, <2>1, Zenon DEF QueueInv, TypeOK, BHs!TypeOK
<1>4. ThreadInv'
  BY <1>1, Zenon DEF QueueInv, ThreadInv
<1>5. (~stolen' => bio_list' = <<>>) /\ \A v \in Vring : num_in_flight'[v] = 0
  BY <1>1 DEF QueueInv
<1> QED
  BY <1>2, <1>3, <1>4, <1>5, Zenon DEF QueueInv

\* The event loop calls rq_complete_bh, and it returns.
LEMMA CallStep ==
  ASSUME QueueInv, ScheduleInv, CallBh \/ BhReturns
  PROVE  QueueInv' /\ LifeStep
<1>1. /\ scheduled' \subseteq scheduled /\ running' \in {{}, {CompletionBh}}
      /\ stolen' = FALSE
      /\ bio_list = <<>>
      /\ UNCHANGED <<submission, backend, vring, num_in_flight, bio_list, slh_first,
                     sle_next>>
      /\ UNCHANGED <<pc, bio, old_slh_first, state>>
  <2>1. CASE CallBh
    <3>1. ~stolen
      BY <2>1 DEF CallBh, Idle, ScheduleInv
    <3> QED
      BY <2>1, <3>1 DEF CallBh, BHs!Call, completionVars, threadVars, QueueInv
  <2>2. CASE BhReturns
    BY <2>2 DEF BhReturns, BHs!Return, completionVars, threadVars
  <2> QED
    BY <2>1, <2>2
<1>2. /\ ListInv' /\ Counted'
      /\ InOnePlace(submission, backend, Unreported, InUse)'
      /\ LifeStep
  BY <1>1, Unmoved
<1>3. TypeOK'
  <2>1. /\ scheduled' \subseteq {CompletionBh} /\ running' \subseteq {CompletionBh}
        /\ stolen' \in BOOLEAN
    BY <1>1 DEF QueueInv, TypeOK, BHs!TypeOK
  <2> QED
    BY <1>1, <2>1, Zenon DEF QueueInv, TypeOK, BHs!TypeOK
<1>4. ThreadInv'
  BY <1>1, Zenon DEF QueueInv, ThreadInv
<1>5. bio_list' = <<>> /\ (state' = "released" => \A v \in Vring : num_in_flight'[v] = 0)
  BY <1>1 DEF QueueInv
<1> QED
  BY <1>2, <1>3, <1>4, <1>5, Zenon DEF QueueInv

\* A call of vhd_complete_bio.
LEMMA CompleteBioStep ==
  ASSUME QueueInv, NEW t \in Thread, NEW b \in Bio, vhd_complete_bio(t, b)
  PROVE  QueueInv' /\ LifeStep
<1>1. /\ b \in backend
      /\ \A u \in Thread : bio[u] # b
      /\ pc' = [pc EXCEPT ![t] = "read"]
      /\ bio' = [bio EXCEPT ![t] = b]
      /\ UNCHANGED <<submission, backend, vring, num_in_flight, bio_list, slh_first,
                     sle_next>>
      /\ UNCHANGED <<old_slh_first, scheduled, running, stolen, state>>
  BY Zenon DEF vhd_complete_bio, completionVars, bhVars
<1>2. /\ ListInv' /\ Counted'
      /\ InOnePlace(submission, backend, Unreported, InUse)'
      /\ LifeStep
  BY <1>1, Unmoved
<1>3. TypeOK'
  <2>1. /\ pc' \in [Thread -> {"idle", "read", "cmpxchg", "schedule"}]
        /\ bio' \in [Thread -> Bio \cup {Null}]
    BY <1>1, QueueTypes
  <2> QED
    BY <1>1, <2>1, Zenon DEF QueueInv, TypeOK, BHs!TypeOK
<1>4. ThreadInv'
  BY <1>1, QueueTypes DEF QueueInv, ThreadInv
<1>5. /\ ~stolen' => bio_list' = <<>>
      /\ state' = "released" => \A v \in Vring : num_in_flight'[v] = 0
  BY <1>1 DEF QueueInv
<1> QED
  BY <1>2, <1>3, <1>4, <1>5, Zenon DEF QueueInv

\* vhd_bh_schedule.
LEMMA ScheduleStep ==
  ASSUME QueueInv, NEW t \in Thread, ScheduleBh(t)
  PROVE  QueueInv' /\ LifeStep
<1>1. /\ pc[t] = "schedule"
      /\ pc' = [pc EXCEPT ![t] = "idle"]
      /\ scheduled' = scheduled \cup {CompletionBh} /\ running' = running
      /\ UNCHANGED <<submission, backend, vring, num_in_flight, bio_list, slh_first,
                     sle_next>>
      /\ UNCHANGED <<bio, old_slh_first, stolen, state>>
  BY Zenon DEF ScheduleBh, BHs!Schedule, completionVars
<1>2. /\ ListInv' /\ Counted'
      /\ InOnePlace(submission, backend, Unreported, InUse)'
      /\ LifeStep
  BY <1>1, Unmoved
<1>3. TypeOK'
  <2>1. /\ pc' \in [Thread -> {"idle", "read", "cmpxchg", "schedule"}]
        /\ scheduled' \subseteq {CompletionBh}
    BY <1>1, QueueTypes DEF QueueInv, TypeOK, BHs!TypeOK
  <2> QED
    BY <1>1, <2>1, Zenon DEF QueueInv, TypeOK, BHs!TypeOK
<1>4. ThreadInv'
  BY <1>1, QueueTypes DEF QueueInv, ThreadInv
<1>5. /\ ~stolen' => bio_list' = <<>>
      /\ state' = "released" => \A v \in Vring : num_in_flight'[v] = 0
  BY <1>1 DEF QueueInv
<1> QED
  BY <1>2, <1>3, <1>4, <1>5, Zenon DEF QueueInv

\* The completion list of a state: duplicates nothing, and none of its requests
\* is with the backend.
LEMMA TheList ==
  ASSUME QueueInv, NEW list, list = Reversed(sle_next, slh_first)
  PROVE  /\ list \in Seq(Bio) /\ Links(sle_next, list, slh_first)
         /\ NoDuplicates(list)
         /\ Unreported = bio_list \o list
         /\ \A b \in backend : b \notin Life!In(list)
<1>1. list \in Seq(Bio) /\ Links(sle_next, list, slh_first)
  BY Zenon DEF QueueInv, ListInv
<1>2. Unreported = bio_list \o list
  BY DEF Unreported
<1>3. NoDuplicates(Unreported) /\ backend \cap Life!In(Unreported) = {}
  BY DEF QueueInv, InOnePlace
<1>4. /\ NoDuplicates(bio_list \o list) => NoDuplicates(list)
      /\ Life!In(list) \subseteq Life!In(bio_list \o list)
  BY <1>1, QueueTypes, Concat
<1> QED
  BY <1>1, <1>2, <1>3, <1>4

\* The first line of the loop of SLIST_INSERT_HEAD_ATOMIC writes a pointer of a
\* request that is not on the list.
LEMMA ReadStep ==
  ASSUME QueueInv, NEW t \in Thread, ReadFirst(t)
  PROVE  QueueInv' /\ LifeStep
<1>. DEFINE list == Reversed(sle_next, slh_first)
<1>1. /\ pc[t] = "read"
      /\ old_slh_first' = [old_slh_first EXCEPT ![t] = slh_first]
      /\ sle_next' = [sle_next EXCEPT ![bio[t]] = slh_first]
      /\ pc' = [pc EXCEPT ![t] = "cmpxchg"]
      /\ UNCHANGED <<submission, vring, backend, slh_first, bio, scheduled, running,
                     stolen, bio_list, num_in_flight, state>>
  BY Zenon DEF ReadFirst, bhVars
<1>2. bio[t] \in backend /\ bio[t] \in Bio
  BY <1>1, QueueTypes DEF QueueInv, ThreadInv
<1>3. /\ list \in Seq(Bio) /\ Links(sle_next, list, slh_first) /\ NoDuplicates(list)
      /\ Unreported = bio_list \o list
      /\ bio[t] \notin Life!In(list)
  BY <1>2, TheList
<1>. HIDE DEF list
<1>4. Links(sle_next', list, slh_first)
  <2>1. \A b \in Life!In(list) : sle_next'[b] = sle_next[b]
    <3>1. Life!In(list) \subseteq Bio
      BY <1>3 DEF Life!In
    <3> QED
      BY <1>1, <1>3, <3>1, QueueTypes
  <2> QED
    BY <1>3, <2>1, LinksKept
<1>5. Reversed(sle_next', slh_first') = list
  BY <1>1, <1>3, <1>4, ReversedIs
<1>6. ListInv'
  BY <1>1, <1>3, <1>4, <1>5, Zenon DEF ListInv
<1>7. Unreported' = Unreported /\ InUse' = InUse
  BY <1>1, <1>3, <1>5, Zenon DEF Unreported, InUse
<1>8. InOnePlace(submission', backend', Unreported', InUse') /\ Counted'
  BY <1>1, <1>7, Zenon DEF QueueInv, Counted
<1>9. TypeOK'
  <2>1. /\ pc' \in [Thread -> {"idle", "read", "cmpxchg", "schedule"}]
        /\ old_slh_first' \in [Thread -> Bio \cup {Null}]
        /\ sle_next' \in [Bio -> Bio \cup {Null}]
    BY <1>1, <1>2, QueueTypes
  <2> QED
    BY <1>1, <2>1, Zenon DEF QueueInv, TypeOK, BHs!TypeOK
<1>10. ThreadInv'
  <2>1. ASSUME NEW u \in Thread
        PROVE  /\ pc'[u] \in {"read", "cmpxchg"} => bio'[u] \in backend'
               /\ pc'[u] \in {"idle", "schedule"} => bio'[u] = Null
               /\ pc'[u] = "cmpxchg" => sle_next'[bio'[u]] = old_slh_first'[u]
    <3>1. CASE u = t
      BY <1>1, <1>2, <3>1, QueueTypes
    <3>2. CASE u # t
      <4>1. pc'[u] = pc[u] /\ old_slh_first'[u] = old_slh_first[u]
        BY <1>1, <3>2, QueueTypes
      <4>2. pc[u] = "cmpxchg" => bio[u] # bio[t] /\ bio[u] \in Bio
        BY <1>2, <3>2, QueueTypes DEF QueueInv, ThreadInv
      <4>3. pc[u] = "cmpxchg" => sle_next'[bio[u]] = sle_next[bio[u]]
        BY <1>1, <4>2, QueueTypes
      <4> QED
        BY <1>1, <4>1, <4>3 DEF QueueInv, ThreadInv
    <3> QED
      BY <3>1, <3>2
  <2> QED
    BY <1>1, <2>1 DEF QueueInv, ThreadInv
<1>11. /\ ~stolen' => bio_list' = <<>>
       /\ state' = "released" => \A v \in Vring : num_in_flight'[v] = 0
  BY <1>1 DEF QueueInv
<1>12. LifeStep
  BY <1>1, <1>7, Zenon DEF LifeStep, Life!vars
<1> QED
  BY <1>6, <1>8, <1>9, <1>10, <1>11, <1>12, Zenon DEF QueueInv

\* The atomic_cmpxchg of SLIST_INSERT_HEAD_ATOMIC completes a request, or the
\* thread tries again.
LEMMA CmpxchgStep ==
  ASSUME QueueInv, NEW t \in Thread, Cmpxchg(t)
  PROVE  QueueInv' /\ LifeStep
<1>1. /\ pc[t] = "cmpxchg"
      /\ UNCHANGED <<submission, vring, sle_next, scheduled, running, stolen, bio_list,
                     num_in_flight, state>>
  BY Zenon DEF Cmpxchg, bhVars
<1>2. /\ ~stolen' => bio_list' = <<>>
      /\ state' = "released" => \A v \in Vring : num_in_flight'[v] = 0
      /\ InUse' = InUse /\ Counted'
  BY <1>1 DEF QueueInv, InUse, Counted
<1>3. bio[t] \in backend /\ bio[t] \in Bio /\ sle_next[bio[t]] = old_slh_first[t]
  BY <1>1, QueueTypes DEF QueueInv, ThreadInv
<1>4. CASE slh_first # old_slh_first[t]
  <2>1. /\ pc' = [pc EXCEPT ![t] = "read"]
        /\ old_slh_first' = [old_slh_first EXCEPT ![t] = Null]
        /\ UNCHANGED <<slh_first, backend, bio>>
    BY <1>4 DEF Cmpxchg
  <2>2. /\ ListInv'
        /\ InOnePlace(submission, backend, Unreported, InUse)'
        /\ LifeStep
    BY <1>1, <2>1, Unmoved
  <2>3. TypeOK'
    <3>1. /\ pc' \in [Thread -> {"idle", "read", "cmpxchg", "schedule"}]
          /\ old_slh_first' \in [Thread -> Bio \cup {Null}]
      BY <2>1, QueueTypes
    <3> QED
      BY <1>1, <2>1, <3>1, Zenon DEF QueueInv, TypeOK, BHs!TypeOK
  <2>4. ThreadInv'
    BY <1>1, <1>3, <2>1, QueueTypes DEF QueueInv, ThreadInv
  <2> QED
    BY <1>2, <2>2, <2>3, <2>4, Zenon DEF QueueInv
<1>5. CASE slh_first = old_slh_first[t]
  <2>. DEFINE list == Reversed(sle_next, slh_first)
              b == bio[t]
  <2>1. PICK p \in {"schedule", "idle"} :
          /\ slh_first' = b
          /\ backend' = backend \ {b}
          /\ old_slh_first' = [old_slh_first EXCEPT ![t] = Null]
          /\ pc' = [pc EXCEPT ![t] = p]
          /\ bio' = [bio EXCEPT ![t] = Null]
    BY <1>5 DEF Cmpxchg, Replaced
  <2>2. /\ list \in Seq(Bio) /\ Links(sle_next, list, slh_first) /\ NoDuplicates(list)
        /\ Unreported = bio_list \o list
        /\ b \notin Life!In(list)
    BY <1>3, TheList
  <2>. HIDE DEF list, b
  <2>3. b \in backend /\ b \in Bio /\ sle_next[b] = slh_first /\ b = bio[t]
    BY <1>3, <1>5 DEF b
  <2>4. /\ Append(list, b) \in Seq(Bio)
        /\ NoDuplicates(Append(list, b))
        /\ Links(sle_next', Append(list, b), slh_first')
    <3>1. Links(sle_next, Append(list, b), b)
      BY <2>2, <2>3, LinksAppend
    <3> QED
      BY <1>1, <2>1, <2>2, <2>3, <3>1, InAppend
  <2>5. Reversed(sle_next', slh_first') = Append(list, b)
    BY <2>4, ReversedIs
  <2>6. ListInv'
    BY <2>4, <2>5, Zenon DEF ListInv
  <2>7. Unreported' = Append(Unreported, b)
    <3>1. bio_list \o Append(list, b) = Append(bio_list \o list, b)
      <4>1. bio_list \in Seq(Bio)
        BY QueueTypes
      <4> QED
        BY <2>2, <2>3, <4>1, ConcatAppend
    <3> QED
      BY <1>1, <2>2, <2>5, <3>1 DEF Unreported
  <2>8. InOnePlace(submission', backend', Unreported', InUse')
    BY <1>1, <1>2, <2>1, <2>3, <2>7, PlaceComplete, Zenon DEF QueueInv
  <2>9. TypeOK'
    <3>1. /\ pc' \in [Thread -> {"idle", "read", "cmpxchg", "schedule"}]
          /\ old_slh_first' \in [Thread -> Bio \cup {Null}]
          /\ bio' \in [Thread -> Bio \cup {Null}]
          /\ slh_first' \in Bio \cup {Null}
          /\ backend' \subseteq Bio
      BY <2>1, <2>3, QueueTypes
    <3> QED
      BY <1>1, <3>1, Zenon DEF QueueInv, TypeOK, BHs!TypeOK
  <2>10. ThreadInv'
    <3>1. ASSUME NEW u \in Thread
          PROVE  /\ pc'[u] \in {"read", "cmpxchg"} => bio'[u] \in backend'
                 /\ pc'[u] \in {"idle", "schedule"} => bio'[u] = Null
                 /\ pc'[u] = "cmpxchg" => sle_next'[bio'[u]] = old_slh_first'[u]
      <4>1. CASE u = t
        BY <2>1, <4>1, QueueTypes
      <4>2. CASE u # t
        <5>1. /\ pc'[u] = pc[u] /\ old_slh_first'[u] = old_slh_first[u]
              /\ bio'[u] = bio[u]
          BY <2>1, <4>2, QueueTypes
        <5>2. bio[u] # b
          BY <2>3, <4>2, QueueTypes DEF QueueInv, ThreadInv
        <5>3. ThreadInv
          BY DEF QueueInv
        <5> QED
          BY <1>1, <2>1, <5>1, <5>2, <5>3 DEF ThreadInv
      <4> QED
        BY <4>1, <4>2
    <3>2. ASSUME NEW u \in Thread, NEW w \in Thread, bio'[u] = bio'[w], bio'[u] # Null
          PROVE  u = w
      <4>1. u # t /\ w # t
        BY <2>1, <3>2, QueueTypes
      <4>2. bio'[u] = bio[u] /\ bio'[w] = bio[w]
        BY <2>1, <4>1, QueueTypes
      <4> QED
        BY <3>2, <4>2 DEF QueueInv, ThreadInv
    <3> QED
      BY <3>1, <3>2 DEF ThreadInv
  <2>11. LifeStep
    <3>1. Life!Complete(b)
      BY <1>1, <2>1, <2>3, <2>7, Zenon DEF Life!Complete
    <3> QED
      BY <2>3, <3>1, Zenon DEF LifeStep, Life!Next
  <2> QED
    BY <1>2, <2>6, <2>8, <2>9, <2>10, <2>11, Zenon DEF QueueInv
<1> QED
  BY <1>4, <1>5

\* rq_complete_bh takes the list.
LEMMA StealStep ==
  ASSUME QueueInv, StealCompletions
  PROVE  QueueInv' /\ LifeStep
<1>. DEFINE list == Reversed(sle_next, slh_first)
<1>1. /\ state = "up" /\ ~stolen /\ stolen' = TRUE
      /\ bio_list' = list /\ slh_first' = Null
      /\ UNCHANGED <<submission, vring, backend, sle_next, pc, bio, old_slh_first,
                     scheduled, running, num_in_flight, state>>
  BY Zenon DEF StealCompletions, threadVars, bhVars
<1>2. list \in Seq(Bio) /\ Unreported = bio_list \o list /\ bio_list = <<>>
  BY <1>1, TheList DEF QueueInv
<1>. HIDE DEF list
<1>3. <<>> \in Seq(Bio) /\ NoDuplicates(<<>>) /\ Links(sle_next', <<>>, slh_first')
  BY <1>1 DEF NoDuplicates, Links
<1>4. Reversed(sle_next', slh_first') = <<>>
  BY <1>3, ReversedIs
<1>5. ListInv'
  BY <1>3, <1>4, Zenon DEF ListInv
<1>6. Unreported' = Unreported
  <2>1. list \o <<>> = list /\ <<>> \o list = list
    BY <1>2, Concat
  <2> QED
    BY <1>1, <1>2, <1>4, <2>1 DEF Unreported
<1>7. InOnePlace(submission', backend', Unreported', InUse') /\ Counted'
  <2>1. InUse' = InUse
    BY <1>1, Zenon DEF InUse
  <2> QED
    BY <1>1, <1>6, <2>1, Zenon DEF QueueInv, Counted
<1>8. TypeOK'
  <2>1. slh_first' \in Bio \cup {Null} /\ bio_list' \in Seq(Bio) /\ stolen' \in BOOLEAN
    BY <1>1, <1>2
  <2> QED
    BY <1>1, <2>1, Zenon DEF QueueInv, TypeOK, BHs!TypeOK
<1>9. ThreadInv'
  BY <1>1, Zenon DEF QueueInv, ThreadInv
<1>10. stolen' /\ state' # "released"
  BY <1>1
<1>11. LifeStep
  BY <1>1, <1>6, Zenon DEF LifeStep, Life!vars
<1> QED
  BY <1>5, <1>7, <1>8, <1>9, <1>10, <1>11, Zenon DEF QueueInv

\* rq_complete_bh reports a request.
LEMMA ReportStep ==
  ASSUME QueueInv, CompleteFirst
  PROVE  QueueInv' /\ LifeStep
<1>. DEFINE list == Reversed(sle_next, slh_first)
            b == Head(bio_list)
<1>1. /\ state = "up" /\ stolen /\ bio_list # <<>>
      /\ req_complete({b}) /\ bio_list' = Tail(bio_list)
      /\ UNCHANGED <<submission, backend, slh_first, sle_next, pc, bio, old_slh_first,
                     scheduled, running, stolen, state>>
  BY Zenon DEF CompleteFirst, completionVars, threadVars, bhVars
<1>2. list \in Seq(Bio) /\ Unreported = bio_list \o list
  BY TheList
<1>3. Unreported' = Tail(bio_list) \o list /\ ListInv'
  BY <1>1, Zenon DEF Unreported, QueueInv, ListInv
<1>4. b \in Bio /\ Tail(bio_list) \in Seq(Bio)
  BY <1>1, QueueTypes
<1>. HIDE DEF list, b
<1>5. Unreported # <<>> /\ Head(Unreported) = b /\ Unreported' = Tail(Unreported)
  BY <1>1, <1>2, <1>3, QueueTypes, Concat DEF b
<1>6. /\ vring' \in [Bio -> Vring \cup {Null}]
      /\ num_in_flight' \in [Vring -> Nat]
      /\ InUse' = InUse \ {b}
      /\ Counted'
  <2>1. {b} \subseteq Bio
    BY <1>4
  <2> QED
    BY <1>1, <2>1, ReqComplete DEF QueueInv
<1>7. InOnePlace(submission', backend', Unreported', InUse')
  <2>1. InOnePlace(submission, backend, Tail(Unreported), InUse \ {Head(Unreported)})
    BY <1>5, PlaceReport DEF QueueInv
  <2> QED
    BY <1>1, <1>5, <1>6, <2>1
<1>8. TypeOK'
  BY <1>1, <1>4, <1>6, Zenon DEF QueueInv, TypeOK, BHs!TypeOK
<1>9. ThreadInv'
  BY <1>1, Zenon DEF QueueInv, ThreadInv
<1>10. stolen' /\ state' # "released"
  BY <1>1
<1>11. LifeStep
  <2>1. Life!Report
    BY <1>1, <1>5, Zenon DEF Life!Report
  <2> QED
    BY <2>1, Zenon DEF LifeStep, Life!Next
<1> QED
  BY <1>3, <1>6, <1>7, <1>8, <1>9, <1>10, <1>11, Zenon DEF QueueInv

\* A new queue.
LEMMA QueueInit ==
  ASSUME Init
  PROVE  QueueInv /\ Life!Init
<1>1. <<>> \in Seq(Bio) /\ NoDuplicates(<<>>) /\ Links(sle_next, <<>>, slh_first)
  BY DEF Init, NoDuplicates, Links
<1>2. Reversed(sle_next, slh_first) = <<>>
  BY <1>1, ReversedIs
<1>3. ListInv
  BY <1>1, <1>2, Zenon DEF ListInv
<1>4. Unreported = <<>>
  BY <1>2 DEF Unreported, Init
<1>5. InOnePlace(submission, backend, Unreported, InUse)
  <2>1. InUse = {} /\ Life!In(<<>>) = {}
    BY DEF Init, InUse, Life!In
  <2>2. submission = <<>> /\ backend = {}
    BY DEF Init
  <2> QED
    BY <1>1, <1>4, <2>1, <2>2 DEF InOnePlace
<1>6. Counted
  <2>1. ASSUME NEW v \in Vring PROVE {b \in Bio : vring[b] = v} = {}
    BY NullAssumption DEF Init
  <2> QED
    BY <2>1, FS_EmptySet DEF Init, Counted
<1>7. TypeOK
  <2>1. submission \in Seq(Bio) /\ bio_list \in Seq(Bio)
    BY DEF Init
  <2>2. /\ vring \in [Bio -> Vring \cup {Null}] /\ sle_next \in [Bio -> Bio \cup {Null}]
        /\ bio \in [Thread -> Bio \cup {Null}]
        /\ old_slh_first \in [Thread -> Bio \cup {Null}]
    BY Zenon DEF Init
  <2>3. /\ pc \in [Thread -> {"idle", "read", "cmpxchg", "schedule"}]
        /\ num_in_flight \in [Vring -> Nat]
    BY DEF Init
  <2>4. BHs!TypeOK /\ backend \subseteq Bio /\ slh_first \in Bio \cup {Null}
    BY DEF Init, BHs!Init, BHs!TypeOK
  <2>5. stolen \in BOOLEAN /\ state \in {"up", "released", "fault"}
    BY DEF Init
  <2> QED
    BY <2>1, <2>2, <2>3, <2>4, <2>5, Zenon DEF TypeOK
<1>8. ThreadInv /\ bio_list = <<>> /\ state = "up"
  BY DEF Init, ThreadInv
<1>9. Life!Init
  BY <1>4 DEF Init, Life!Init
<1> QED
  BY <1>3, <1>5, <1>6, <1>7, <1>8, <1>9 DEF QueueInv

\* Every step keeps the invariant and is a step of RequestLife or moves no
\* request.
LEMMA QueueStep ==
  ASSUME QueueInv, ScheduleInv, [Next]_vars
  PROVE  QueueInv' /\ LifeStep
<1>1. CASE UNCHANGED vars
  <2>1. /\ UNCHANGED <<submission, backend, vring, num_in_flight, bio_list, slh_first,
                       sle_next>>
        /\ UNCHANGED <<pc, bio, old_slh_first, scheduled, running, stolen, state>>
    BY <1>1, Zenon DEF vars, completionVars, threadVars, bhVars
  <2>2. /\ ListInv' /\ Counted'
        /\ InOnePlace(submission, backend, Unreported, InUse)'
        /\ LifeStep
    BY <2>1, Unmoved
  <2>3. TypeOK' /\ ThreadInv'
    BY <2>1, Zenon DEF QueueInv, TypeOK, BHs!TypeOK, ThreadInv
  <2>4. /\ ~stolen' => bio_list' = <<>>
        /\ state' = "released" => \A v \in Vring : num_in_flight'[v] = 0
    BY <2>1 DEF QueueInv
  <2> QED
    BY <2>2, <2>3, <2>4, Zenon DEF QueueInv
<1>2. CASE Next
  BY <1>2, EnqueueStep, DequeueStep, CancelStep, ReleaseStep, CallStep,
     CompleteBioStep, ScheduleStep, ReadStep, CmpxchgStep, StealStep, ReportStep,
     Zenon DEF Next, ThreadStep, BhStep
<1> QED
  BY <1>1, <1>2

\* The invariants of the queue.
LEMMA QueueInvariant == Spec => [](QueueInv /\ ScheduleInv)
<1>1. Init => QueueInv /\ ScheduleInv
  <2>1. Init => ScheduleInv
    BY DEF Init, ScheduleInv, FirstSchedules, Scheduler, Unstolen, BHs!Init
  <2> QED
    BY <2>1, QueueInit
<1>2. QueueInv /\ ScheduleInv /\ [Next]_vars => QueueInv' /\ ScheduleInv'
  BY QueueStep, NextSchedule
<1> QED
  BY <1>1, <1>2, PTL DEF Spec

\* A queue is released when nobody uses it: if the vrings count nothing in
\* flight, the asserts of vhd_release_request_queue hold, and no thread is left
\* that would schedule completion_bh afterwards.
THEOREM ReleasedQuietly == Spec => []ReleaseQuiet
<1>1. QueueInv /\ ScheduleInv => ReleaseQuiet
  <2> SUFFICES ASSUME QueueInv, ScheduleInv PROVE ReleaseQuiet
    OBVIOUS
  <2>1. ASSUME \A v \in Vring : num_in_flight[v] = 0
        PROVE  submission = <<>> /\ slh_first = Null
    <3>1. ASSUME NEW b \in InUse PROVE FALSE
      <4>1. vring[b] \in Vring /\ b \in Bio
        BY QueueTypes DEF InUse
      <4>. DEFINE Of == {c \in Bio : vring[c] = vring[b]}
      <4>2. Cardinality(Of) = 0
        BY <2>1, <4>1 DEF QueueInv, Counted
      <4>3. IsFiniteSet(Of) /\ b \in Of
        BY <4>1, BioAssumption, FS_Subset
      <4>. HIDE DEF Of
      <4> QED
        BY <4>2, <4>3, FS_EmptySet
    <3>2. Life!In(submission) = {} /\ Life!In(Unreported) = {}
      BY <3>1 DEF QueueInv, InOnePlace
    <3>3. ASSUME NEW s \in Seq(Bio), Life!In(s) = {} PROVE s = <<>>
      BY <3>3 DEF Life!In
    <3>4. submission = <<>>
      BY <3>2, <3>3, QueueTypes
    <3>. DEFINE list == Reversed(sle_next, slh_first)
    <3>5. /\ list \in Seq(Bio) /\ Links(sle_next, list, slh_first)
          /\ Unreported = bio_list \o list
      BY TheList
    <3>. HIDE DEF list
    <3>6. list = <<>>
      <4>1. Life!In(list) \subseteq Life!In(Unreported)
        BY <3>5, QueueTypes, Concat
      <4> QED
        BY <3>2, <3>3, <3>5, <4>1
    <3>7. slh_first = Null
      BY <3>5, <3>6 DEF Links
    <3> QED
      BY <3>4, <3>7
  <2>2. ASSUME state = "released"
        PROVE  scheduled = {} /\ \A t \in Thread : pc[t] # "schedule"
    <3>1. slh_first = Null
      BY <2>1, <2>2 DEF QueueInv
    <3> QED
      BY <2>2, <3>1 DEF ScheduleInv, FirstSchedules, Scheduler
  <2> QED
    BY <2>1, <2>2 DEF ReleaseQuiet
<1> QED
  BY <1>1, QueueInvariant, PTL

\* The queue implements RequestLife: whatever the threads that complete
\* requests do in between, every request is reported at most once, and in the
\* order in which the requests were completed ("we want the completions FIFO").
THEOREM ImplementsLife == Spec => LifeSpec
<1>1. Init => Life!Init
  BY QueueInit
<1>2. QueueInv /\ ScheduleInv /\ [Next]_vars => [Life!Next]_(Life!vars)
  BY QueueStep, Zenon DEF LifeStep
<1> QED
  BY <1>1, <1>2, QueueInvariant, PTL DEF Spec, LifeSpec, Life!Spec

===============================================================================
