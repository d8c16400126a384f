--------------------------- MODULE EventLoopBhProofs ---------------------------
(***************************************************************************)
(* Proofs about the bottom halves (BHs) of the event loop, for any number  *)
(* of threads, BHs and handlers: a BH is linked at most once, nothing is   *)
(* used after it is freed, a terminated loop leaves nothing behind, and    *)
(* the loop implements the abstract bottom halves.                         *)
(***************************************************************************)
EXTENDS EventLoopProofs

\* The caller of vhd_submit_work_and_wait does not return before the work is
\* complete, also when the BH that ran its function is freed; a work that was
\* handed over has no BH in any list.
WorkInv ==
    \A b \in Work :
        /\ mem[b] = "none" => b \notin posted \cup handed
        /\ mem[b] # "none" /\ b \notin posted =>
             \E t \in Thread : target[t] = b /\ pc[t] # "idle"
        /\ b \in handed => "PENDING" \notin flags[b]

\* vhd_bh_schedule and vhd_bh_delete, up to the atomic_fetch_or.
LEMMA MarksBh ==
    ASSUME BhTypes, BhInv, NEW t \in Caller, NEW b \in Bh, NEW f \in Flag,
           Marks(t, b, f)
    PROVE  BhInv'
  <1>1. /\ b \in Persistent /\ pc[t] = "idle" /\ "DELETED" \notin flags[b]
        /\ bh_enqueue(t, b, {f})
        /\ UNCHANGED <<mem, bh_list, batch, cur, last, at, is_terminated>>
        /\ {f} \in SUBSET Flag /\ f \in {"SCHEDULED", "DELETED"}
        /\ f = "DELETED" \/ ~Terminating
    BY DEF Marks
  <1>2. /\ \A c \in Bh \ {b} : flags'[c] = flags[c]
        /\ flags'[b] = flags[b] \cup {"PENDING", f}
    BY <1>1 DEF BhTypes, bh_enqueue
  <1>3. LinkInv'
    BY <1>1, EnqueueLinks DEF BhInv
  <1>4. \A c : InHand(c)' <=> InHand(c)
    BY <1>1 DEF InHand
  <1>5. b \notin Oneshot /\ mem[b] = "live"
    BY <1>1 DEF BhTypes, BhInv, LifeInv
  <1>6. LifeInv'
    <2>1. \A c \in Oneshot : flags'[c] = flags[c]
      BY <1>2, <1>5 DEF BhTypes
    <2>2. ASSUME NEW c \in Persistent
          PROVE  /\ "ONESHOT" \notin flags'[c]
                 /\ mem[c] # "none"
                 /\ mem[c] = "freed" => "DELETED" \in flags'[c]
                 /\ mem[c] = "live" /\ "DELETED" \in flags'[c] =>
                      \/ "PENDING" \in flags'[c]
                      \/ InHand(c) /\ "DELETED" \in last
                 /\ InHand(c) => "ONESHOT" \notin last
                 /\ InHand(c) /\ "DELETED" \in last =>
                      "DELETED" \in flags'[c] /\ "PENDING" \notin flags'[c]
      <3>1. CASE c # b
        <4>1. flags'[c] = flags[c]
          BY <1>2, <3>1 DEF BhTypes
        <4>2. QED
          BY <4>1 DEF BhInv, LifeInv
      <3>2. CASE c = b
        BY <1>1, <1>2, <1>5, <3>2 DEF BhInv, LifeInv
      <3>3. QED
        BY <3>1, <3>2
    <2>3. ASSUME NEW c \in Bh
          PROVE  /\ "PENDING" \in flags'[c] => mem[c] = "live"
                 /\ "SCHEDULED" \in flags'[c] => "PENDING" \in flags'[c]
      BY <1>2, <1>5 DEF BhInv, LifeInv
    <2>4. QED
      BY <1>1, <1>4, <2>1, <2>2, <2>3 DEF BhInv, LifeInv
  <1>7. StopInv'
    <2>1. Inserting' \subseteq Inserting \cup {b}
      BY <1>1, EnqueueInserting DEF BhTypes
    <2>2. Inserting \subseteq Bh /\ Rng(bh_list) \subseteq Bh
      BY ListsTyped DEF BhTypes
    <2>3. Terminating' = Terminating
      BY <1>1 DEF Terminating
    <2>4. \A c \in Bh : "DELETED" \in flags[c] => "DELETED" \in flags'[c]
      BY <1>2
    <2>5. Terminating => "DELETED" \in flags'[b]
      BY <1>1, <1>2
    <2>6. StopBh # b /\ flags'[StopBh] = flags[StopBh]
      BY <1>2, <1>5 DEF BhTypes
    <2>7. StopBh \in Inserting' <=> StopBh \in Inserting
      BY <1>1, <2>6, EnqueueInserting DEF BhTypes
    <2>8. ASSUME Terminating
          PROVE  \A c \in Inserting' : c = StopBh \/ "DELETED" \in flags'[c]
      BY <2>1, <2>2, <2>4, <2>5, <2>8 DEF BhInv, StopInv
    <2>9. ASSUME Terminating, StopBh \notin Rng(bh_list) \cup Inserting'
          PROVE  \A c \in Rng(bh_list) : "DELETED" \in flags'[c]
      BY <2>2, <2>4, <2>7, <2>9 DEF BhInv, StopInv
    <2>10. QED
      BY <1>1, <2>3, <2>6, <2>8, <2>9 DEF BhInv, StopInv
  <1>8. QED
    BY <1>3, <1>6, <1>7 DEF BhInv

\* vhd_bh_cancel takes BH_SCHEDULED away and leaves the BH where it is.
LEMMA CancelBh ==
    ASSUME BhTypes, BhInv, NEW t \in Caller, NEW b \in Persistent,
           vhd_bh_cancel(t, b)
    PROVE  BhInv'
  <1>1. /\ UNCHANGED <<mem, bh_list, batch, cur, last, at, is_terminated, pc,
                       target>>
        /\ "DELETED" \notin flags[b] /\ b \in Bh /\ b \notin Oneshot
    BY DEF vhd_bh_cancel, callerVars, pollVars, BhTypes
  <1>2. /\ \A c \in Bh \ {b} : flags'[c] = flags[c]
        /\ flags'[b] = flags[b] \ {"SCHEDULED"}
    BY <1>1 DEF BhTypes, vhd_bh_cancel
  <1>3. \A c \in Bh : \A g \in {"PENDING", "DELETED", "ONESHOT"} :
            g \in flags'[c] <=> g \in flags[c]
    BY <1>2
  <1>4. Inserting' = Inserting /\ Lists' = Lists /\ Terminating' = Terminating
    BY <1>1 DEF Inserting, Lists, Terminating
  <1>5. \A c : InHand(c)' <=> InHand(c)
    BY <1>1 DEF InHand
  <1>6. LinkInv'
    BY <1>1, <1>3, <1>4 DEF BhInv, LinkInv
  <1>7. LifeInv'
    <2>1. \A c \in Oneshot : flags'[c] = flags[c] /\ c \in Bh
      BY <1>1, <1>2 DEF BhTypes
    <2>2. \A c \in Persistent : c \in Bh
      BY DEF BhTypes
    <2>3. \A c \in Bh : "SCHEDULED" \in flags'[c] => "PENDING" \in flags'[c]
      BY <1>2 DEF BhInv, LifeInv
    <2>4. QED
      BY <1>1, <1>3, <1>5, <2>1, <2>2, <2>3 DEF BhInv, LifeInv
  <1>8. StopInv'
    <2>1. /\ Inserting \subseteq Bh /\ Rng(bh_list) \subseteq Bh
          /\ StopBh \in Bh
      BY ListsTyped DEF BhTypes
    <2>2. QED
      BY <1>1, <1>3, <1>4, <2>1 DEF BhInv, StopInv
  <1>9. QED
    BY <1>6, <1>7, <1>8 DEF BhInv

\* SLIST_INSERT_HEAD_ATOMIC of bh_enqueue.
LEMMA InsertBh ==
    ASSUME BhTypes, BhInv, NEW t \in Caller, Insert(t)
    PROVE  BhInv'
  <1> DEFINE b == target[t]
  <1>1. /\ pc[t] = "insert" /\ b \in Bh /\ b \in Inserting
        /\ bh_list' = <<b>> \o bh_list
        /\ UNCHANGED <<flags, mem, target, batch, cur, last, at, is_terminated>>
        /\ pc'[t] = "notify"
        /\ \A u \in Caller \ {t} : pc'[u] = pc[u]
    BY DEF Insert, BhTypes, pollVars, Inserting
  <1> HIDE DEF b
  <1>2. Rng(bh_list') = {b} \cup Rng(bh_list)
    BY <1>1, Elements DEF BhTypes
  <1>3. Inserting' = Inserting \ {b}
    <2>1. \A u \in Caller \ {t} : pc[u] = "insert" => target[u] # b
      BY <1>1 DEF BhInv, LinkInv, b
    <2>2. QED
      BY <1>1, <2>1 DEF Inserting, b
  <1>4. b \notin Rng(bh_list) /\ b \notin Rng(batch)
    BY <1>1 DEF BhInv, LinkInv
  <1>5. Lists' = Lists
    BY <1>1, <1>2, <1>3 DEF Lists
  <1>6. Once(bh_list')
    BY <1>1, <1>4, OnceLists DEF BhTypes, BhInv, LinkInv
  <1>7. \A c : InHand(c)' <=> InHand(c)
    BY <1>1 DEF InHand
  <1>8. LinkInv'
    <2>1. /\ Rng(bh_list') \cap Rng(batch) = {}
          /\ Rng(bh_list') \cap Inserting' = {}
          /\ Rng(batch) \cap Inserting' = {}
      BY <1>2, <1>3, <1>4 DEF BhInv, LinkInv
    <2>2. \A u, v \in Caller :
            pc'[u] = "insert" /\ pc'[v] = "insert" /\ target[u] = target[v]
            => u = v
      BY <1>1 DEF BhInv, LinkInv
    <2>3. QED
      BY <1>1, <1>5, <1>6, <2>1, <2>2 DEF BhInv, LinkInv
  <1>9. LifeInv'
    BY <1>1, <1>7 DEF BhInv, LifeInv
  <1>10. StopInv'
    <2>1. Terminating' = Terminating
      BY <1>1 DEF Terminating
    <2>2. Terminating =>
            \A c \in Inserting' : c = StopBh \/ "DELETED" \in flags[c]
      BY <1>3 DEF BhInv, StopInv
    <2>3. ASSUME Terminating, StopBh \notin Rng(bh_list') \cup Inserting'
          PROVE  \A c \in Rng(bh_list') : "DELETED" \in flags[c]
      <3>1. StopBh # b /\ StopBh \notin Rng(bh_list) \cup Inserting
        BY <1>2, <1>3, <2>3
      <3>2. "DELETED" \in flags[b]
        BY <1>1, <2>3, <3>1 DEF BhInv, StopInv
      <3>3. QED
        BY <1>2, <2>3, <3>1, <3>2 DEF BhInv, StopInv
    <2>4. QED
      BY <1>1, <2>1, <2>2, <2>3 DEF BhInv, StopInv
  <1>11. QED
    BY <1>8, <1>9, <1>10 DEF BhInv

\* SLIST_MOVE_ATOMIC of bh_poll.
LEMMA PollBh == ASSUME BhTypes, BhInv, bh_poll PROVE BhInv'
  <1>1. /\ at = "poll" /\ at' = "dequeue" /\ batch' = bh_list /\ bh_list' = <<>>
        /\ UNCHANGED <<flags, mem, pc, target, cur, last, is_terminated>>
    BY DEF bh_poll, Goes, callerVars
  <1>2. /\ batch = <<>> /\ Rng(batch) = {} /\ Rng(bh_list') = {}
        /\ Rng(batch') = Rng(bh_list) /\ Inserting' = Inserting
    BY <1>1, Elements DEF BhInv, LinkInv, Inserting
  <1>3. Lists' = Lists
    BY <1>2 DEF Lists
  <1>4. \A c : ~InHand(c) /\ ~InHand(c)'
    BY <1>1 DEF InHand
  <1>5. LinkInv'
    BY <1>1, <1>2, <1>3, OnceLists DEF BhInv, LinkInv
  <1>6. LifeInv'
    BY <1>1, <1>4 DEF BhInv, LifeInv
  <1>7. StopInv'
    BY <1>1, <1>2 DEF BhInv, StopInv, Terminating
  <1>8. QED
    BY <1>5, <1>6, <1>7 DEF BhInv

\* bh_dequeue takes the first BH of the list bh_poll has moved.
LEMMA DequeueBh == ASSUME BhTypes, BhInv, bh_dequeue PROVE BhInv'
  <1> DEFINE b == Head(batch)
  <1>1. /\ batch # <<>> /\ b \in Bh /\ b \in Rng(batch) /\ cur' = b
        /\ last' = flags[b] /\ batch' = Tail(batch)
        /\ at = "dequeue" /\ at' \in {"call", "free"}
        /\ flags'[b] = flags[b] \ {"PENDING", "SCHEDULED"}
        /\ \A c \in Bh \ {b} : flags'[c] = flags[c]
        /\ UNCHANGED <<mem, bh_list, pc, target, is_terminated>>
    BY Elements DEF bh_dequeue, Goes, callerVars, BhTypes
  <1>2. /\ Rng(batch) = {b} \cup Rng(batch') /\ b \notin Rng(batch')
        /\ Once(batch')
    BY <1>1, Elements, OnceLists DEF BhTypes, BhInv, LinkInv
  <1> HIDE DEF b
  <1>3. Inserting' = Inserting /\ Terminating' = Terminating
    BY <1>1 DEF Inserting, Terminating
  <1>4. /\ b \notin Rng(bh_list) /\ b \notin Inserting
        /\ "PENDING" \in flags[b] /\ mem[b] = "live"
    BY <1>1 DEF BhInv, LinkInv, LifeInv, Lists
  <1>5. Lists' = Lists \ {b}
    BY <1>1, <1>2, <1>3, <1>4 DEF Lists
  <1>6. \A c : ~InHand(c) /\ (InHand(c)' <=> c = b)
    BY <1>1 DEF InHand
  <1>7. LinkInv'
    <2>1. \A c \in Bh : "PENDING" \in flags'[c] <=> c \in Lists'
      BY <1>1, <1>5 DEF BhInv, LinkInv
    <2>2. /\ Rng(bh_list) \cap Rng(batch') = {}
          /\ Rng(batch') \cap Inserting' = {}
      BY <1>2, <1>3 DEF BhInv, LinkInv
    <2>3. \A t, u \in Caller :
            pc[t] = "insert" /\ pc[u] = "insert" /\ target[t] = target[u] => t = u
      BY DEF BhInv, LinkInv
    <2>4. QED
      BY <1>1, <1>2, <1>3, <2>1, <2>2, <2>3 DEF BhInv, LinkInv
  <1>8. LifeInv'
    <2>1. ASSUME NEW c \in Oneshot
          PROVE  /\ "DELETED" \notin flags'[c]
                 /\ mem[c] = "none" => flags'[c] = {}
                 /\ mem[c] = "live" =>
                      /\ "ONESHOT" \in flags'[c]
                      /\ "PENDING" \in flags'[c] \/ c = b
                 /\ c = b => "ONESHOT" \in last' /\ "PENDING" \notin flags'[c]
      <3>1. CASE c # b
        <4>1. flags'[c] = flags[c]
          BY <1>1, <3>1 DEF BhTypes
        <4>2. QED
          BY <1>6, <3>1, <4>1 DEF BhInv, LifeInv
      <3>2. CASE c = b
        BY <1>1, <1>4, <3>2 DEF BhInv, LifeInv
      <3>3. QED
        BY <3>1, <3>2
    <2>2. ASSUME NEW c \in Persistent
          PROVE  /\ "ONESHOT" \notin flags'[c]
                 /\ mem[c] # "none"
                 /\ mem[c] = "freed" => "DELETED" \in flags'[c]
                 /\ mem[c] = "live" /\ "DELETED" \in flags'[c] =>
                      \/ "PENDING" \in flags'[c]
                      \/ c = b /\ "DELETED" \in last'
                 /\ c = b => "ONESHOT" \notin last'
                 /\ c = b /\ "DELETED" \in last' =>
                      "DELETED" \in flags'[c] /\ "PENDING" \notin flags'[c]
      <3>1. CASE c # b
        <4>1. flags'[c] = flags[c]
          BY <1>1, <3>1 DEF BhTypes
        <4>2. QED
          BY <1>6, <3>1, <4>1 DEF BhInv, LifeInv
      <3>2. CASE c = b
        BY <1>1, <1>4, <3>2 DEF BhInv, LifeInv
      <3>3. QED
        BY <3>1, <3>2
    <2>3. ASSUME NEW c \in Bh
          PROVE  /\ "PENDING" \in flags'[c] => mem[c] = "live"
                 /\ "SCHEDULED" \in flags'[c] => "PENDING" \in flags'[c]
      BY <1>1 DEF BhInv, LifeInv
    <2>4. QED
      BY <1>1, <1>4, <1>6, <2>1, <2>2, <2>3 DEF LifeInv
  <1>9. StopInv'
    <2>1. /\ \A c \in Inserting : flags'[c] = flags[c]
          /\ \A c \in Rng(bh_list) : flags'[c] = flags[c]
      BY <1>1, <1>4, ListsTyped
    <2>2. is_terminated => "PENDING" \notin flags'[StopBh]
      BY <1>1 DEF BhInv, StopInv, BhTypes
    <2>3. QED
      BY <1>1, <1>3, <2>1, <2>2 DEF BhInv, StopInv
  <1>10. QED
    BY <1>7, <1>8, <1>9 DEF BhInv

\* The callback of a BH has returned.
LEMMA ReturnsBh == ASSUME BhTypes, BhInv, CallReturns PROVE BhInv'
  <1>1. /\ at = "call" /\ at' = "free"
        /\ UNCHANGED <<flags, mem, bh_list, batch, pc, target, cur, last>>
        /\ is_terminated' = (is_terminated \/ cur = StopBh)
    BY DEF CallReturns, Goes, callerVars, pollVars, bhVars
  <1>2. Inserting' = Inserting /\ Lists' = Lists /\ Terminating' = Terminating
    BY <1>1 DEF Inserting, Lists, Terminating
  <1>3. \A c : InHand(c)' <=> InHand(c)
    BY <1>1 DEF InHand
  <1>4. LinkInv'
    BY <1>1, <1>2 DEF BhInv, LinkInv
  <1>5. LifeInv'
    BY <1>1, <1>3 DEF BhInv, LifeInv
  <1>6. StopInv'
    <2>1. cur = StopBh => Terminating /\ "PENDING" \notin flags[StopBh]
      BY <1>1 DEF BhInv, LifeInv, InHand, Terminating, BhTypes
    <2>2. QED
      BY <1>1, <1>2, <2>1 DEF BhInv, StopInv
  <1>7. QED
    BY <1>4, <1>5, <1>6 DEF BhInv

\* bh_poll frees the BH it is at, or is done with it.
LEMMA FreesBh == ASSUME BhTypes, BhInv, FreeBh PROVE BhInv'
  <1>1. /\ at = "free" /\ at' = "dequeue" /\ cur \in Bh /\ mem[cur] = "live"
        /\ UNCHANGED <<flags, bh_list, batch, pc, target, is_terminated>>
        /\ \A c \in Bh \ {cur} : mem'[c] = mem[c]
        /\ mem'[cur] = IF last \cap {"DELETED", "ONESHOT"} # {} THEN "freed"
                                                              ELSE "live"
    BY DEF FreeBh, Goes, callerVars, BhTypes, BhInv, LifeInv
  <1>2. Inserting' = Inserting /\ Lists' = Lists
    BY <1>1 DEF Inserting, Lists
  <1>3. Terminating' = Terminating
    BY <1>1 DEF Terminating, BhTypes
  <1>4. \A c : ~InHand(c)' /\ (InHand(c) <=> c = cur)
    BY <1>1 DEF InHand
  <1>5. LinkInv'
    BY <1>1, <1>2 DEF BhInv, LinkInv
  <1>6. LifeInv'
    <2>1. ASSUME NEW c \in Oneshot
          PROVE  /\ "DELETED" \notin flags[c]
                 /\ mem'[c] = "none" => flags[c] = {}
                 /\ mem'[c] = "live" =>
                      "ONESHOT" \in flags[c] /\ "PENDING" \in flags[c]
      BY <1>1, <1>4 DEF BhInv, LifeInv, BhTypes
    <2>2. ASSUME NEW c \in Persistent
          PROVE  /\ "ONESHOT" \notin flags[c]
                 /\ mem'[c] # "none"
                 /\ mem'[c] = "freed" => "DELETED" \in flags[c]
                 /\ mem'[c] = "live" /\ "DELETED" \in flags[c] =>
                      "PENDING" \in flags[c]
      <3>1. CASE c # cur
        BY <1>1, <1>4, <3>1 DEF BhInv, LifeInv, BhTypes
      <3>2. CASE c = cur
        BY <1>1, <1>4, <3>2 DEF BhInv, LifeInv, BhTypes
      <3>3. QED
        BY <3>1, <3>2
    <2>3. ASSUME NEW c \in Bh
          PROVE  /\ "PENDING" \in flags[c] => mem'[c] = "live"
                 /\ "SCHEDULED" \in flags[c] => "PENDING" \in flags[c]
      <3>1. CASE c # cur
        BY <1>1, <3>1 DEF BhInv, LifeInv
      <3>2. CASE c = cur
        BY <1>1, <1>4, <3>2 DEF BhInv, LifeInv, BhTypes
      <3>3. QED
        BY <3>1, <3>2
    <2>4. QED
      BY <1>1, <1>4, <2>1, <2>2, <2>3 DEF LifeInv
  <1>7. StopInv'
    BY <1>1, <1>2, <1>3 DEF BhInv, StopInv
  <1>8. QED
    BY <1>5, <1>6, <1>7 DEF BhInv

\* vhd_free_event_loop frees what is left in bh_list.
LEMMA FreeLoopBh == ASSUME BhTypes, BhInv, vhd_free_event_loop PROVE BhInv'
  <1>1. /\ at = "stopped" /\ at' = "freed" /\ bh_list' = <<>>
        /\ UNCHANGED <<batch, pc, target, cur, last, is_terminated>>
        /\ \A t \in Caller : pc[t] = "idle"
        /\ \A c \in Bh : IF c \in Rng(bh_list)
                         THEN /\ flags'[c] = flags[c] \ {"PENDING", "SCHEDULED"}
                              /\ mem'[c] = "freed"
                         ELSE flags'[c] = flags[c] /\ mem'[c] = mem[c]
    BY DEF vhd_free_event_loop, Goes, callerVars, pollVars, Rng
  <1>2. /\ batch = <<>> /\ Rng(batch) = {} /\ Inserting = {} /\ Inserting' = {}
        /\ Rng(bh_list') = {}
    BY <1>1, Elements DEF BhInv, LinkInv, Inserting
  <1>3. Lists = Rng(bh_list) /\ Lists' = {}
    BY <1>1, <1>2 DEF Lists
  <1>4. is_terminated /\ Terminating /\ "PENDING" \notin flags[StopBh]
    BY <1>1 DEF BhInv, StopInv
  <1>5. StopBh \in Bh /\ StopBh \notin Rng(bh_list)
    BY <1>3, <1>4 DEF BhTypes, BhInv, LinkInv
  <1>6. \A c \in Rng(bh_list) : "DELETED" \in flags[c]
    BY <1>2, <1>4, <1>5 DEF BhInv, StopInv
  <1>7. \A c : ~InHand(c) /\ ~InHand(c)'
    BY <1>1 DEF InHand
  <1>8. LinkInv'
    <2>1. \A c \in Bh : "PENDING" \notin flags'[c]
      BY <1>1, <1>3 DEF BhInv, LinkInv
    <2>2. QED
      BY <1>1, <1>2, <1>3, <2>1, OnceLists DEF BhInv, LinkInv
  <1>9. LifeInv'
    <2>1. \A c \in Oneshot : c \notin Rng(bh_list)
      BY <1>6 DEF BhInv, LifeInv
    <2>2. ASSUME NEW c \in Oneshot
          PROVE  flags'[c] = flags[c] /\ mem'[c] = mem[c]
      BY <1>1, <2>1 DEF BhTypes
    <2>3. ASSUME NEW c \in Persistent
          PROVE  /\ "ONESHOT" \notin flags'[c]
                 /\ mem'[c] # "none"
                 /\ mem'[c] = "freed" => "DELETED" \in flags'[c]
                 /\ mem'[c] = "live" /\ "DELETED" \in flags'[c] =>
                      "PENDING" \in flags'[c]
      <3>1. CASE c \in Rng(bh_list)
        BY <1>1, <1>6, <3>1 DEF BhInv, LifeInv, BhTypes
      <3>2. CASE c \notin Rng(bh_list)
        BY <1>1, <1>7, <3>2 DEF BhInv, LifeInv, BhTypes
      <3>3. QED
        BY <3>1, <3>2
    <2>4. ASSUME NEW c \in Bh
          PROVE  "PENDING" \notin flags'[c] /\ "SCHEDULED" \notin flags'[c]
      BY <1>1, <1>3 DEF BhInv, LinkInv, LifeInv
    <2>5. QED
      BY <1>1, <1>7, <2>2, <2>3, <2>4 DEF BhInv, LifeInv
  <1>10. StopInv'
    <2>1. Terminating' /\ flags'[StopBh] = flags[StopBh]
      BY <1>1, <1>4, <1>5 DEF Terminating
    <2>2. QED
      BY <1>1, <1>2, <1>4, <2>1 DEF StopInv
  <1>11. QED
    BY <1>8, <1>9, <1>10 DEF BhInv

\* Every step keeps the invariants of the BHs.
LEMMA NextBh == TypeOK /\ BhInv /\ [Next]_vars => BhInv'
  <1> SUFFICES ASSUME TypeOK, BhInv, [Next]_vars PROVE BhInv'
    OBVIOUS
  <1>1. BhTypes
    BY BhTyping
  <1>2. CASE \E t \in Caller, b \in Bh : Allocates(t, b)
    BY <1>1, <1>2, AllocatesBh
  <1>3. CASE \E t \in Caller, b \in Bh, f \in Flag : Marks(t, b, f)
    BY <1>1, <1>3, MarksBh
  <1>4. CASE \E t \in Caller, b \in Persistent : vhd_bh_cancel(t, b)
    BY <1>1, <1>4, CancelBh
  <1>5. CASE \E t \in Caller : Insert(t)
    BY <1>1, <1>5, InsertBh
  <1>6. QED
    BY <1>1, <1>2, <1>3, <1>4, <1>5, Kinds, PollBh, DequeueBh, ReturnsBh,
       FreesBh, FreeLoopBh, KeepsBh

\* Every step keeps WorkInv: the caller returns when the semaphore is posted.
LEMMA NextWork == TypeOK /\ BhInv /\ WorkInv /\ [Next]_vars => WorkInv'
  <1> SUFFICES ASSUME TypeOK, BhInv, WorkInv, [Next]_vars PROVE WorkInv'
    OBVIOUS
  <1>1. BhTypes
    BY BhTyping
  <1>2. \A b \in Work : b \in Oneshot /\ b \in Bh
    BY DEF Oneshot, Bh
  <1>3. Thread \subseteq Caller
    BY DEF Caller
  <1>4. ASSUME NEW t \in Caller, NEW b \in Bh, Allocates(t, b)
        PROVE  WorkInv'
    <2>1. /\ UNCHANGED <<posted, handed>>
          /\ mem[b] = "none" /\ mem'[b] = "live" /\ pc[t] = "idle"
          /\ pc'[t] # "idle" /\ target'[t] = b
          /\ \A c \in Bh \ {b} : mem'[c] = mem[c] /\ flags'[c] = flags[c]
          /\ \A u \in Caller \ {t} : pc'[u] = pc[u] /\ target'[u] = target[u]
          /\ b \in Work => t \in Thread
      BY <1>1, <1>4 DEF Allocates, bh_enqueue, BhTypes
    <2>2. QED
      BY <1>2, <1>3, <2>1 DEF WorkInv
  <1>5. ASSUME NEW t \in Caller, NEW b \in Bh, NEW f \in Flag, Marks(t, b, f)
        PROVE  WorkInv'
    <2>1. /\ UNCHANGED <<posted, handed, mem>> /\ pc[t] = "idle"
          /\ \A c \in Work : flags'[c] = flags[c]
          /\ \A u \in Caller \ {t} : pc'[u] = pc[u] /\ target'[u] = target[u]
      BY <1>1, <1>2, <1>5 DEF Marks, bh_enqueue, BhTypes
    <2>2. QED
      BY <1>3, <2>1 DEF WorkInv
  <1>6. ASSUME NEW t \in Caller, Insert(t)
        PROVE  WorkInv'
    <2>1. /\ UNCHANGED <<posted, handed, flags, mem, target>> /\ pc'[t] # "idle"
          /\ \A u \in Caller \ {t} : pc'[u] = pc[u]
      BY <1>1, <1>6 DEF Insert, BhTypes
    <2>2. QED
      BY <1>3, <2>1 DEF WorkInv
  <1>7. CASE FreeBh \/ vhd_free_event_loop
    <2>1. /\ UNCHANGED <<posted, handed, pc, target>>
          /\ \A c \in Bh : /\ mem'[c] = mem[c] \/ mem[c] # "none"
                           /\ mem'[c] = "none" => mem[c] = "none"
                           /\ flags'[c] \subseteq flags[c]
      <3>1. CASE FreeBh
        <4>1. cur \in Bh /\ mem[cur] = "live"
          BY <1>1, <3>1 DEF FreeBh, Goes, BhTypes, BhInv, LifeInv
        <4>2. QED
          BY <1>1, <3>1, <4>1 DEF FreeBh, callerVars, BhTypes
      <3>2. CASE vhd_free_event_loop
        <4>1. \A c \in Rng(bh_list) : mem[c] = "live"
          BY <1>1, ListsTyped DEF BhInv, LinkInv, LifeInv, Lists
        <4>2. QED
          BY <1>1, <3>2, <4>1 DEF vhd_free_event_loop, callerVars, BhTypes, Rng
      <3>3. QED
        BY <1>7, <3>1, <3>2
    <2>2. QED
      BY <1>2, <2>1 DEF WorkInv
  <1>8. CASE \/ \E t \in Caller, b \in Persistent : vhd_bh_cancel(t, b)
             \/ bh_poll \/ bh_dequeue
    <2>1. /\ UNCHANGED <<posted, handed, pc, target, mem>>
          /\ \A c \in Bh : flags'[c] \subseteq flags[c]
      BY <1>1, <1>8 DEF vhd_bh_cancel, bh_poll, bh_dequeue, callerVars, BhTypes
    <2>2. QED
      BY <1>2, <2>1 DEF WorkInv
  <1>9. CASE CallReturns
    <2>1. /\ UNCHANGED <<posted, pc, target, mem, flags>>
          /\ handed' = handed \cup ({cur} \cap (Work \ posted))
          /\ at = "call"
      BY <1>9 DEF CallReturns, Goes, bhVars
    <2>2. cur \in Work => mem[cur] = "live" /\ "PENDING" \notin flags[cur]
      BY <1>1, <1>2, <2>1 DEF BhInv, LifeInv, InHand
    <2>3. QED
      BY <2>1, <2>2 DEF WorkInv
  <1>10. CASE Keeps
    <2>1. /\ UNCHANGED <<mem, flags>> /\ posted \subseteq posted'
          /\ handed' \subseteq handed
          /\ \A b \in Work \cap (posted' \ posted) : mem[b] # "none"
          /\ \A t \in Caller : pc[t] # "idle" /\ target[t] \in Work \ posted =>
               pc'[t] # "idle" /\ target'[t] = target[t]
      BY <1>10 DEF Keeps, MayComplete, BhInv, LifeInv, WorkInv
    <2>2. QED
      BY <1>3, <2>1 DEF WorkInv
  <1>11. QED
    BY <1>4, <1>5, <1>6, <1>7, <1>8, <1>9, <1>10, Kinds

\* The invariants hold in every state the loop reaches.
LEMMA Invariants == Spec => [](TypeOK /\ BhInv /\ WorkInv /\ HandlerInv)
  <1>1. Init => WorkInv
    BY StopAssumption, KindAssumption DEF Init, WorkInv, Oneshot, Bh
  <1>2. Init => HandlerInv
    BY DEF Init, HandlerInv
  <1>3. QED
    BY <1>1, <1>2, InitBh, NextBh, NextWork, NextHandlers, Typing, PTL DEF Spec

\* BH_PENDING guards a single link: a pending BH is in exactly one list, or
\* about to be inserted by exactly one caller, and has memory; others are
\* linked nowhere; a BH that is to be freed is linked or in the hands of
\* bh_poll.
THEOREM LinkedOncePerBh == Spec => []LinkedOnce
  <1>1. ASSUME BhTypes, BhInv PROVE LinkedOnce
    <2> SUFFICES ASSUME NEW b \in Bh
                 PROVE  /\ IF "PENDING" \in flags[b]
                           THEN Linked(b) = 1 /\ mem[b] = "live"
                           ELSE Linked(b) = 0
                        /\ mem[b] = "live"
                           /\ flags[b] \cap {"DELETED", "ONESHOT"} # {} =>
                             \/ "PENDING" \in flags[b]
                             \/ at \in {"call", "free"} /\ cur = b
      BY DEF LinkedOnce
    <2> DEFINE I == {t \in Caller : pc[t] = "insert" /\ target[t] = b}
    <2>1. Cardinality(I) = IF b \in Inserting THEN 1 ELSE 0
      <3>1. CASE b \in Inserting
        <4>1. PICK t \in Caller : pc[t] = "insert" /\ target[t] = b
          BY <3>1 DEF Inserting
        <4>2. I = {t}
          BY <1>1, <4>1 DEF BhInv, LinkInv
        <4>3. QED
          BY <3>1, <4>2, SmallSets
      <3>2. CASE b \notin Inserting
        <4>1. I = {}
          BY <3>2 DEF Inserting
        <4>2. QED
          BY <3>2, <4>1, SmallSets
      <3>3. QED
        BY <3>1, <3>2
    <2>2. /\ Cardinality({i \in DOMAIN bh_list : bh_list[i] = b}) =
               IF b \in Rng(bh_list) THEN 1 ELSE 0
          /\ Cardinality({i \in DOMAIN batch : batch[i] = b}) =
               IF b \in Rng(batch) THEN 1 ELSE 0
      BY <1>1, Occurrences DEF BhTypes, BhInv, LinkInv
    <2>3. Linked(b) = IF b \in Lists THEN 1 ELSE 0
      BY <1>1, <2>1, <2>2 DEF Linked, Lists, BhInv, LinkInv
    <2>4. "PENDING" \in flags[b] <=> b \in Lists
      BY <1>1 DEF BhInv, LinkInv
    <2>5. "PENDING" \in flags[b] => mem[b] = "live"
      BY <1>1 DEF BhInv, LifeInv
    <2>6. mem[b] = "live" /\ flags[b] \cap {"DELETED", "ONESHOT"} # {} =>
             \/ "PENDING" \in flags[b]
             \/ at \in {"call", "free"} /\ cur = b
      <3>1. CASE b \in Oneshot
        BY <1>1, <3>1 DEF BhInv, LifeInv, InHand
      <3>2. CASE b \in Persistent
        BY <1>1, <3>2 DEF BhInv, LifeInv, InHand
      <3>3. QED
        BY <1>1, <3>1, <3>2 DEF BhTypes
    <2>7. QED
      BY <2>3, <2>4, <2>5, <2>6
  <1>2. QED
    BY <1>1, Invariants, BhTyping, PTL

\* Nothing is used after it is freed: the BH bh_poll is at, the io handlers on
\* the ready list, and the work on the stack of its caller, who is waiting as
\* long as the work may be completed, also when it was handed over.
THEOREM MemorySafe == Spec => []NoUseAfterFree
  <1>1. ASSUME BhTypes, BhInv, WorkInv, HandlerInv, TypeOK
        PROVE  NoUseAfterFree
    <2>1. at \in {"call", "free"} => mem[cur] = "live"
      BY <1>1 DEF BhInv, LifeInv
    <2>2. ASSUME NEW b \in Work \ posted, MayComplete(b)
          PROVE  \E t \in Thread :
                     target[t] = b /\ pc[t] \in {"notify", "set", "sem"}
      <3>0. mem[b] # "none" /\ "PENDING" \notin flags[b]
        BY <1>1, <2>1, <2>2
           DEF MayComplete, WorkInv, BhInv, LifeInv, InHand, Oneshot
      <3>1. PICK t \in Thread : target[t] = b /\ pc[t] # "idle"
        BY <1>1, <2>2, <3>0 DEF WorkInv
      <3>2. b \in Bh /\ t \in Caller
        BY <2>2 DEF Oneshot, Bh, Caller
      <3>3. b \notin Inserting
        BY <1>1, <3>0, <3>2 DEF BhInv, LinkInv, Lists
      <3>4. pc[t] # "insert"
        BY <3>1, <3>2, <3>3 DEF Inserting
      <3>5. pc[t] \in {"idle", "insert", "notify", "set", "sem"}
        BY <1>1, <3>2 DEF BhTypes
      <3>6. QED
        BY <3>1, <3>4, <3>5
    <2>3. QED
      BY <1>1, <2>1, <2>2 DEF NoUseAfterFree, HandlerInv
  <1>2. QED
    BY <1>1, Invariants, BhTyping, PTL

\* The argument of StopInv, at the end: nothing but deleted BHs is linked.
LEMMA Drained ==
    ASSUME BhTypes, BhInv, at \in {"stopped", "freed"}
    PROVE  /\ \A b \in Rng(bh_list) : "DELETED" \in flags[b]
           /\ \A b \in Oneshot : mem[b] # "live"
  <1>1. is_terminated /\ Terminating /\ "PENDING" \notin flags[StopBh]
    BY DEF BhInv, StopInv
  <1>2. StopBh \notin Lists /\ Rng(batch) = {}
    BY <1>1, Elements DEF BhTypes, BhInv, LinkInv
  <1>3. \A b \in Rng(bh_list) : "DELETED" \in flags[b]
    BY <1>1, <1>2 DEF BhInv, StopInv, Lists
  <1>4. \A b \in Inserting : "DELETED" \in flags[b]
    BY <1>1, <1>2 DEF BhInv, StopInv, Lists
  <1>5. ASSUME NEW b \in Oneshot, mem[b] = "live"
        PROVE  FALSE
    <2>1. "PENDING" \in flags[b] /\ "DELETED" \notin flags[b] /\ b \in Bh
      BY <1>5 DEF BhInv, LifeInv, InHand, BhTypes
    <2>2. b \in Lists
      BY <2>1 DEF BhInv, LinkInv
    <2>3. QED
      BY <1>2, <1>3, <1>4, <2>1, <2>2 DEF Lists
  <1>6. QED
    BY <1>3, <1>5

\* When a terminated loop has stopped, every oneshot BH has run and is freed,
\* only deleted BHs remain in bh_list, and deleted handlers are freed.
THEOREM StopDrainsAll == Spec => []StopDrains
  <1>1. ASSUME BhTypes, BhInv, HandlerInv PROVE StopDrains
    BY <1>1, Drained DEF StopDrains, HandlerInv, Rng
  <1>2. QED
    BY <1>1, Invariants, BhTyping, PTL

\* The BHs whose callbacks run.
Running == IF at = "call" THEN {cur} ELSE {}

\* A step of the abstract bottom halves, or none.
AbstractStep ==
    \/ \E b \in Bh :
         \/ Scheduled' = Scheduled \cup {b} /\ Running' = Running
         \/ Scheduled' = Scheduled \ {b} /\ Running' = Running
         \/ Running = {} /\ b \in Scheduled
            /\ Scheduled' = Scheduled \ {b} /\ Running' = {b}
         \/ b \in Running /\ Running' = {} /\ Scheduled' = Scheduled
    \/ Scheduled' = Scheduled /\ Running' = Running

\* The atomic_fetch_or of bh_enqueue schedules the BH, revokes it (when it is
\* deleted), or leaves the scheduled ones as they are.
LEMMA EnqueueAbstract ==
    ASSUME NEW t \in Caller, NEW b \in Bh, NEW new \in SUBSET Flag,
           flags \in [Bh -> SUBSET Flag], bh_enqueue(t, b, new)
    PROVE  \/ Scheduled' = Scheduled \cup {b}
           \/ Scheduled' = Scheduled \ {b}
           \/ Scheduled' = Scheduled
  <1>1. /\ flags' \in [Bh -> SUBSET Flag]
        /\ flags'[b] = flags[b] \cup {"PENDING"} \cup new
        /\ \A c \in Bh \ {b} : flags'[c] = flags[c]
    BY DEF bh_enqueue, Flag
  <1>2. Scheduled' \ {b} = Scheduled \ {b}
    BY <1>1 DEF Scheduled
  <1>3. b \in Scheduled' \/ b \notin Scheduled'
    OBVIOUS
  <1>4. QED
    BY <1>2, <1>3

\* Every step of the loop and of its callers is one of the abstract bottom
\* halves: bh_enqueue schedules or revokes, bh_dequeue calls.
LEMMA NextAbstract == TypeOK /\ BhInv /\ [Next]_vars => AbstractStep
  <1> SUFFICES ASSUME TypeOK, BhInv, [Next]_vars
               PROVE  AbstractStep
    OBVIOUS
  <1>0. BhTypes
    BY BhTyping
  <1>1. ASSUME NEW t \in Caller, NEW b \in Bh, Allocates(t, b)
        PROVE  AbstractStep
    <2>1. bh_enqueue(t, b, {"SCHEDULED", "ONESHOT"}) /\ Running' = Running
      BY <1>1 DEF Allocates, Running
    <2>2. QED
      BY <1>0, <2>1, EnqueueAbstract DEF AbstractStep, Flag, BhTypes
  <1>2. ASSUME NEW t \in Caller, NEW b \in Bh, NEW f \in Flag, Marks(t, b, f)
        PROVE  AbstractStep
    <2>1. bh_enqueue(t, b, {f}) /\ Running' = Running
      BY <1>2 DEF Marks, Running
    <2>2. QED
      BY <1>0, <2>1, EnqueueAbstract DEF AbstractStep, BhTypes
  <1>3. ASSUME NEW t \in Caller, NEW b \in Persistent, vhd_bh_cancel(t, b)
        PROVE  AbstractStep
    <2>1. /\ \A c \in Bh \ {b} : flags'[c] = flags[c]
          /\ flags'[b] = flags[b] \ {"SCHEDULED"}
          /\ Running' = Running /\ b \in Bh
      BY <1>0, <1>3 DEF vhd_bh_cancel, pollVars, Running, BhTypes
    <2>2. Scheduled' = Scheduled \ {b}
      BY <2>1 DEF Scheduled
    <2>3. QED
      BY <2>1, <2>2 DEF AbstractStep
  <1>4. CASE (\E t \in Caller : Insert(t)) \/ bh_poll \/ FreeBh \/ Keeps
    <2>1. flags' = flags /\ Running' = Running
      BY <1>4 DEF Insert, bh_poll, FreeBh, Keeps, Goes, pollVars, Running
    <2>2. QED
      BY <2>1 DEF AbstractStep, Scheduled
  <1>5. CASE bh_dequeue
    <2> DEFINE b == Head(batch)
    <2>1. /\ b \in Bh /\ cur' = b /\ at = "dequeue"
          /\ at' = IF b \in Scheduled THEN "call" ELSE "free"
          /\ flags'[b] = flags[b] \ {"PENDING", "SCHEDULED"}
          /\ \A c \in Bh \ {b} : flags'[c] = flags[c]
      BY <1>0, <1>5 DEF bh_dequeue, Goes, BhTypes, Scheduled
    <2>2. Scheduled' = Scheduled \ {b}
      BY <2>1 DEF Scheduled
    <2> HIDE DEF b
    <2>3. Running = {} /\ Running' = IF b \in Scheduled THEN {b} ELSE {}
      BY <2>1 DEF Running
    <2>4. QED
      BY <2>1, <2>2, <2>3 DEF AbstractStep
  <1>6. CASE CallReturns
    <2>1. /\ cur \in Bh /\ Running = {cur} /\ Running' = {} /\ flags' = flags
      BY <1>0, <1>6 DEF CallReturns, Goes, bhVars, Running, BhTypes
    <2>2. QED
      BY <2>1 DEF AbstractStep, Scheduled
  <1>7. CASE vhd_free_event_loop
    <2>1. /\ at = "stopped" /\ at' = "freed"
          /\ \A b \in Persistent : "DELETED" \in flags[b]
          /\ \A b \in Bh : /\ "DELETED" \in flags[b] => "DELETED" \in flags'[b]
                           /\ "SCHEDULED" \in flags'[b] => "SCHEDULED" \in flags[b]
      BY <1>0, <1>7 DEF vhd_free_event_loop, Goes, BhTypes
    <2>2. \A b \in Oneshot : "SCHEDULED" \notin flags[b]
      <3>1. \A b \in Oneshot : mem[b] # "live" /\ b \in Bh
        BY <1>0, <2>1, Drained DEF BhTypes
      <3>2. QED
        BY <3>1 DEF BhInv, LifeInv
    <2>3. Scheduled = {} /\ Scheduled' = {}
      BY <1>0, <2>1, <2>2 DEF Scheduled, BhTypes
    <2>4. QED
      BY <2>1, <2>3 DEF AbstractStep, Running
  <1>8. QED
    BY <1>1, <1>2, <1>3, <1>4, <1>5, <1>6, <1>7, Kinds

\* The event loop implements the abstract bottom halves, for any number of
\* threads, BHs and handlers: a callback is called once for the schedules
\* before it, never when the BH was canceled or deleted, and none is dropped,
\* not even by vhd_free_event_loop.
THEOREM Implements == Spec => BhSpec
  <1>1. Init => Abstract!Init
    BY DEF Init, Abstract!Init, Scheduled
  <1>2. AbstractStep => [Abstract!Next]_(Abstract!vars)
    BY DEF AbstractStep, Running, Abstract!Next, Abstract!vars,
           Abstract!Schedule, Abstract!Revoke, Abstract!Call, Abstract!Return
  <1>3. QED
    BY <1>1, <1>2, NextAbstract, Invariants, PTL
       DEF Spec, BhSpec, Abstract!Spec

================================================================================
