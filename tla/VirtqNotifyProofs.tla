-------------------------- MODULE VirtqNotifyProofs --------------------------
(***************************************************************************)
(* Proofs about VirtqNotify, for any size of the virtqueue and any width   *)
(* of its indices: no kick and no interrupt is lost, and the device takes  *)
(* what the driver has added and no more.                                  *)
(***************************************************************************)
EXTENDS VirtqNotify, TLAPS

-----------------------------------------------------------------------------
(* Arithmetic modulo Wrap. *)

\* The remainder of a number at most one turn out of range.
LEMMA Remainder ==
  ASSUME NEW w \in Nat, w > 0, NEW i \in Int
  PROVE  /\ i \in 0 .. w - 1 => i % w = i
         /\ i \in w .. 2 * w - 1 => i % w = i - w
         /\ i \in -w .. -1 => i % w = i + w
<1>1. ASSUME i \in 0 .. w - 1 PROVE i % w = i
  BY <1>1
<1>2. ASSUME i \in w .. 2 * w - 1 PROVE i % w = i - w
  BY <1>2
<1>3. ASSUME i \in -w .. -1 PROVE i % w = i + w
  BY <1>3
<1> QED
  BY <1>1, <1>2, <1>3

\* uint16_t arithmetic without remainders.
LEMMA Uint16 ==
  ASSUME NEW i \in Index, NEW j \in Index
  PROVE  /\ Inc(i) = IF i + 1 = Wrap THEN 0 ELSE i + 1
         /\ Diff(i, j) = IF i >= j THEN i - j ELSE i - j + Wrap
         /\ Diff(i, j + 1) = Diff(i, Inc(j))
<1>1. Wrap \in Nat /\ Wrap > 0
  BY SizeAssumption
<1>2. Inc(i) = IF i + 1 = Wrap THEN 0 ELSE i + 1
  BY <1>1, Remainder DEF Inc, Index
<1>3. Diff(i, j) = IF i >= j THEN i - j ELSE i - j + Wrap
  BY <1>1, Remainder DEF Diff, Index
<1>4. Diff(i, j + 1) = Diff(i, Inc(j))
  <2>1. Inc(j) = IF j + 1 = Wrap THEN 0 ELSE j + 1
    BY <1>1, Remainder DEF Inc, Index
  <2>2. CASE j + 1 = Wrap
    <3>1. (i - Wrap) % Wrap = i /\ (i - 0) % Wrap = i
      BY <1>1, Remainder DEF Index
    <3> QED
      BY <2>1, <2>2, <3>1 DEF Diff, Index
  <2> QED
    BY <2>1, <2>2 DEF Diff
<1> QED
  BY <1>2, <1>3, <1>4

\* What is used of Diff: from a fixed index a, Diff(a, i) tells indices apart
\* and moves by one with either.
LEMMA Distance ==
  ASSUME NEW a \in Index, NEW i \in Index, NEW j \in Index
  PROVE  /\ Inc(i) \in Index
         /\ Diff(a, i) \in Index
         /\ Diff(a, a) = 0
         /\ Diff(a, i) = Diff(a, j) => i = j
         /\ Diff(a, i) # 0 => Diff(a, Inc(i)) = Diff(a, i) - 1
         /\ Diff(a, i) < Wrap - 1 => Diff(Inc(a), i) = Diff(a, i) + 1
         /\ Diff(a, i + 1) = Diff(a, Inc(i))
<1>1. Wrap \in Nat /\ Wrap > 0
  BY SizeAssumption
<1>2. Inc(i) \in Index /\ Inc(a) \in Index
  <2>1. ASSUME NEW k \in Index PROVE Inc(k) \in Index
    <3>1. Inc(k) = IF k + 1 = Wrap THEN 0 ELSE k + 1
      BY Uint16
    <3> QED
      BY <1>1, <3>1 DEF Index
  <2> QED
    BY <2>1
<1>3. /\ Diff(a, i) = IF a >= i THEN a - i ELSE a - i + Wrap
      /\ Diff(a, j) = IF a >= j THEN a - j ELSE a - j + Wrap
      /\ Diff(i, j) = IF i >= j THEN i - j ELSE i - j + Wrap
      /\ Diff(a, a) = 0
  BY <1>1, Uint16 DEF Index
<1>4. Diff(a, i) # 0 => Diff(a, Inc(i)) = Diff(a, i) - 1
  <2>1. /\ Inc(i) = IF i + 1 = Wrap THEN 0 ELSE i + 1
        /\ Diff(a, Inc(i)) = IF a >= Inc(i) THEN a - Inc(i) ELSE a - Inc(i) + Wrap
    BY <1>2, Uint16
  <2> QED
    BY <1>1, <1>3, <2>1 DEF Index
<1>5. Diff(a, i) < Wrap - 1 => Diff(Inc(a), i) = Diff(a, i) + 1
  <2>1. /\ Inc(a) = IF a + 1 = Wrap THEN 0 ELSE a + 1
        /\ Diff(Inc(a), i) = IF Inc(a) >= i THEN Inc(a) - i ELSE Inc(a) - i + Wrap
    BY <1>2, Uint16
  <2> QED
    BY <1>1, <1>3, <2>1 DEF Index
<1>6. /\ Diff(a, i) \in Index
      /\ Diff(a, i) = Diff(a, j) => i = j
  BY <1>1, <1>3 DEF Index
<1>7. Diff(a, i + 1) = Diff(a, Inc(i))
  BY Uint16
<1> QED
  BY <1>2, <1>3, <1>4, <1>5, <1>6, <1>7

\* The difference of two indices from their distances to a third.
LEMMA Between ==
  ASSUME NEW a \in Index, NEW i \in Index, NEW j \in Index,
         Diff(a, i) <= Diff(a, j)
  PROVE  Diff(i, j) = Diff(a, j) - Diff(a, i)
<1>1. Wrap \in Nat /\ Wrap > 0
  BY SizeAssumption
<1>2. /\ Diff(a, i) = IF a >= i THEN a - i ELSE a - i + Wrap
      /\ Diff(a, j) = IF a >= j THEN a - j ELSE a - j + Wrap
      /\ Diff(i, j) = IF i >= j THEN i - j ELSE i - j + Wrap
  BY Uint16
<1> QED
  BY <1>1, <1>2 DEF Index

-----------------------------------------------------------------------------
(* The invariant. *)

\* How far index i is behind the driver's.
Behind(i) == Diff(drv.avail, i)

\* The store buffer of the device holds one store at most, since a barrier
\* follows each.  used->idx is visible when virtq_push returns, and avail_event
\* when the loop that writes it ends.
DevBuffer ==
    /\ \/ buffer["dev"] = <<>>
       \/ DevAt("reread") /\ buffer["dev"] = << <<"avail_event", dev.avail>> >>
       \/ dev.notify /\ buffer["dev"] = << <<"used_idx", vq.used>> >>
    /\ dev.notify => dev.at \in {"idle", "fetch"}
    /\ dev.at \in {"event", "reread"} => has_event_idx
    /\ mem["used_idx"] # vq.used =>
           dev.notify /\ buffer["dev"] # <<>> /\ Inc(mem["used_idx"]) = vq.used
    /\ has_event_idx =>
         /\ dev.at = "idle" => mem["avail_event"] = vq.last_avail
         /\ dev.at = "fetch" \/ (dev.at = "reread" /\ buffer["dev"] = <<>>) =>
                mem["avail_event"] = dev.avail

\* avail->idx in memory, and what it will be when k stores have been flushed.
AvailIdx(k) == IF k = 0 THEN mem["avail_idx"] ELSE buffer["drv"][k][2]

\* The field by which the driver turns interrupts on, and the store that does.
EventField == IF has_event_idx THEN "used_event" ELSE "no_interrupt"
EventValue == IF has_event_idx THEN drv.used ELSE 0

\* The store buffer of the driver holds avail indices, the oldest first, while
\* it adds requests, and what it does to interrupts in its interrupt handler:
\* they are on when the driver waits for one.
DrvBuffer ==
    /\ drv.at = "idle" => buffer["drv"] = <<>>
    /\ drv.at # "kick" => mem["avail_idx"] = drv.avail
    /\ drv.at = "kick" =>
         /\ \A k \in 1 .. Len(buffer["drv"]) : buffer["drv"][k][1] = "avail_idx"
         /\ \A j, k \in 0 .. Len(buffer["drv"]) :
               j <= k => Behind(AvailIdx(k)) <= Behind(AvailIdx(j))
         /\ AvailIdx(Len(buffer["drv"])) = drv.avail
    /\ drv.at \in {"get", "enable", "recheck"} =>
         \A k \in 1 .. Len(buffer["drv"]) : buffer["drv"][k][1] = EventField
    /\ drv.at = "recheck" /\ buffer["drv"] # <<>> =>
         buffer["drv"][Len(buffer["drv"])][2] = EventValue
    /\ drv.at \in {"idle", "kick"}
         \/ (drv.at = "recheck" /\ buffer["drv"] = <<>>) =>
         mem[EventField] = EventValue

\* The indices follow each other round the ring: the driver's avail index, the
\* one in memory, the one the device has read, the one it has fetched up to,
\* its used index, the one in memory, and the one the driver has seen.
Order ==
    /\ Behind(mem["avail_idx"]) <= Behind(vq.last_avail)
    /\ Behind(vq.last_avail) <= Behind(vq.used)
    /\ Behind(vq.used) <= Behind(mem["used_idx"])
    /\ Behind(mem["used_idx"]) <= Behind(drv.used)
    /\ Behind(drv.used) <= QSize
    /\ dev.at \in {"event", "reread", "fetch"} =>
         /\ Behind(mem["avail_idx"]) <= Behind(dev.avail)
         /\ Behind(dev.avail) <= Behind(vq.last_avail)
    /\ dev.at # "failed"

\* Unless kickfd is signalled, the device has fetched, or is about to fetch,
\* all that was added before the driver last decided whether to kick.
Kicks ==
    /\ Behind(drv.kicked) <= Behind(drv.used)
    /\ drv.at # "kick" => drv.kicked = drv.avail
    /\ Behind(mem["avail_idx"]) <= Behind(drv.kicked)
    /\ ~kick /\ dev.at = "idle" => Behind(vq.last_avail) <= Behind(drv.kicked)
    /\ ~kick /\ dev.at = "fetch" => Behind(dev.avail) <= Behind(drv.kicked)

\* Unless callfd is signalled, a driver that waits for an interrupt has seen
\* all that was used but for the request of a virtq_push that is under way.
Calls ==
    drv.at \in {"idle", "kick"} /\ vq.notify_fd /\ ~call =>
       \/ drv.used = vq.used
       \/ dev.notify /\ Inc(drv.used) = vq.used

Inv == TypeOK /\ DevBuffer /\ DrvBuffer /\ Order /\ Kicks /\ Calls
-----------------------------------------------------------------------------

\* Both sides start at rest with empty store buffers.
LEMMA InitInv == Init => Inv
<1>1. 0 \in Index /\ Diff(0, 0) = 0 /\ QSize \in Nat
  <2>1. 0 \in Index
    BY SizeAssumption DEF Index
  <2> QED
    BY <2>1, Distance, SizeAssumption
<1>2. ASSUME Init PROVE TypeOK
  <2>1. mem \in [Field -> Index]
    BY <1>1, <1>2 DEF Init
  <2>2. buffer \in [Side -> Seq(Field \X Index)]
    <3>1. <<>> \in Seq(Field \X Index)
      OBVIOUS
    <3> QED
      BY <1>2, <3>1, Zenon DEF Init
  <2>3. has_event_idx \in BOOLEAN /\ kick \in BOOLEAN /\ call \in BOOLEAN
    BY <1>2, Zenon DEF Init
  <2>4. /\ vq \in [last_avail : Index, used : Index, notify_fd : BOOLEAN]
        /\ dev \in [at : {"idle", "avail", "event", "reread", "fetch", "failed"},
                    avail : Index, given : BOOLEAN, notify : BOOLEAN]
        /\ drv \in [at : {"idle", "kick", "get", "enable", "recheck"},
                    avail : Index, kicked : Index, used : Index]
    BY <1>1, <1>2 DEF Init
  <2> QED
    BY <2>1, <2>2, <2>3, <2>4 DEF TypeOK
<1>3. ASSUME Init
      PROVE  DevBuffer /\ DrvBuffer /\ Order /\ Kicks /\ Calls
  <2>1. /\ buffer["dev"] = <<>> /\ buffer["drv"] = <<>>
        /\ mem["avail_idx"] = 0 /\ mem["used_idx"] = 0 /\ mem["avail_event"] = 0
        /\ mem["used_event"] = 0 /\ mem["no_interrupt"] = 0
        /\ vq.last_avail = 0 /\ vq.used = 0
        /\ dev = [at |-> "idle", avail |-> 0, given |-> FALSE, notify |-> FALSE]
        /\ drv = [at |-> "idle", avail |-> 0, kicked |-> 0, used |-> 0]
    BY <1>3 DEF Init, Side, Field
  <2> QED
    BY <1>1, <2>1 DEF DevBuffer, DrvBuffer, Order, Kicks, Calls, Behind,
       EventField, EventValue
<1> QED
  BY <1>2, <1>3 DEF Inv

\* A store, and a flush, keep the type of the store buffers.
LEMMA BufferType ==
  ASSUME buffer \in [Side -> Seq(Field \X Index)], NEW s \in Side
  PROVE  /\ \A f \in Field, i \in Index :
               Store(s, f, i) => buffer' \in [Side -> Seq(Field \X Index)]
         /\ buffer[s] # <<>> =>
               /\ Head(buffer[s])[1] \in Field /\ Head(buffer[s])[2] \in Index
               /\ Tail(buffer[s]) \in Seq(Field \X Index)
<1>1. buffer[s] \in Seq(Field \X Index)
  OBVIOUS
<1>2. ASSUME NEW f \in Field, NEW i \in Index, Store(s, f, i)
      PROVE  buffer' \in [Side -> Seq(Field \X Index)]
  <2>1. Append(buffer[s], <<f, i>>) \in Seq(Field \X Index)
    BY <1>1
  <2> QED
    BY <1>2, <2>1 DEF Store
<1>3. buffer[s] # <<>> => /\ Head(buffer[s]) \in Field \X Index
                          /\ Tail(buffer[s]) \in Seq(Field \X Index)
  BY <1>1
<1> QED
  BY <1>2, <1>3

\* Every step keeps the types.
LEMMA NextType ==
  ASSUME Inv, Next
  PROVE  TypeOK'
<1>1. TypeOK /\ 0 \in Index /\ 1 \in Index /\ \A i \in Index : Inc(i) \in Index
  BY Distance, SizeAssumption DEF Inv, Index
<1>2. /\ {"avail_idx", "used_event", "no_interrupt", "used_idx", "avail_event"}
           \subseteq Field
      /\ {"dev", "drv"} \subseteq Side
  BY DEF Field, Side
<1>3. /\ mem["avail_idx"] \in Index /\ mem["used_idx"] \in Index
      /\ vq \in [last_avail : Index, used : Index, notify_fd : BOOLEAN]
  BY <1>1, <1>2 DEF TypeOK
<1>4. has_event_idx' \in BOOLEAN /\ kick' \in BOOLEAN /\ call' \in BOOLEAN
  BY <1>1, Zenon DEF TypeOK, Next, Dequeue, vring_kick, ReadAvailIdx,
     virtq_set_avail_event, RereadAvailIdx, virtq_dequeue_one, DequeueDone,
     virtq_push, virtq_notify, virtq_set_notify_fd, AddRequest, DriverStep,
     KickDevice, Interrupt, GetUsed, EnableInterrupts, RecheckUsed, Flush
<1>. DEFINE Data == /\ mem' \in [Field -> Index]
                    /\ buffer' \in [Side -> Seq(Field \X Index)]
                    /\ vq' \in [last_avail : Index, used : Index, notify_fd : BOOLEAN]
                    /\ dev' \in [at : {"idle", "avail", "event", "reread", "fetch",
                                       "failed"},
                                 avail : Index, given : BOOLEAN, notify : BOOLEAN]
                    /\ drv' \in [at : {"idle", "kick", "get", "enable", "recheck"},
                                 avail : Index, kicked : Index, used : Index]
<1>5. SUFFICES Data
  BY <1>4, Zenon DEF TypeOK
<1>6. CASE Dequeue
  <2>1. CASE virtq_set_avail_event
    BY <1>1, <1>2, <2>1, BufferType, Zenon DEF TypeOK, virtq_set_avail_event
  <2>2. CASE virtq_dequeue_one
    <3>1. CASE num_avail > QSize
      BY <1>1, <2>2, <3>1, Zenon DEF TypeOK, virtq_dequeue_one
    <3>2. CASE ~ (num_avail > QSize)
      <4>1. /\ vq' = [vq EXCEPT !.last_avail = Inc(@)]
            /\ dev' = [dev EXCEPT !.given = TRUE]
            /\ UNCHANGED <<mem, buffer, drv>>
        BY <2>2, <3>2, Zenon DEF virtq_dequeue_one
      <4>2. vq' \in [last_avail : Index, used : Index, notify_fd : BOOLEAN]
        BY <1>1, <1>3, <4>1, Zenon
      <4> QED
        BY <1>1, <4>1, <4>2, Zenon DEF TypeOK
    <3> QED
      BY <3>1, <3>2
  <2>3. CASE vring_kick
    BY <1>1, <2>3, Zenon DEF TypeOK, vring_kick
  <2>4. CASE ReadAvailIdx
    BY <1>1, <1>3, <2>4, Zenon DEF TypeOK, ReadAvailIdx
  <2>5. CASE RereadAvailIdx
    BY <1>1, <1>3, <2>5, Zenon DEF TypeOK, RereadAvailIdx
  <2>6. CASE DequeueDone
    BY <1>1, <2>6, Zenon DEF TypeOK, DequeueDone
  <2> QED
    BY <1>6, <2>1, <2>2, <2>3, <2>4, <2>5, <2>6, Zenon DEF Dequeue
<1>7. CASE virtq_push
  <2>1. vq' \in [last_avail : Index, used : Index, notify_fd : BOOLEAN]
    BY <1>1, <1>3, <1>7 DEF virtq_push
  <2>2. buffer' \in [Side -> Seq(Field \X Index)]
    BY <1>1, <1>2, <1>7, <2>1, BufferType DEF TypeOK, virtq_push
  <2> QED
    BY <1>1, <1>7, <2>1, <2>2, Zenon DEF TypeOK, virtq_push
<1>8. CASE virtq_notify \/ virtq_set_notify_fd
  BY <1>1, <1>8, Zenon DEF TypeOK, virtq_notify, virtq_set_notify_fd
<1>9. CASE AddRequest
  <2>1. drv'.avail = Inc(drv.avail) /\ drv' = [drv EXCEPT !.at = "kick", !.avail = Inc(@)]
    BY <1>1, <1>9 DEF AddRequest, TypeOK
  <2>2. buffer' \in [Side -> Seq(Field \X Index)]
    BY <1>1, <1>2, <1>9, <2>1, BufferType DEF TypeOK, AddRequest
  <2> QED
    BY <1>1, <1>9, <2>1, <2>2, Zenon DEF TypeOK, AddRequest
<1>10. CASE DriverStep
  <2>1. buffer' \in [Side -> Seq(Field \X Index)]
    BY <1>1, <1>2, <1>10, BufferType DEF TypeOK, DriverStep, KickDevice, Interrupt,
       GetUsed, EnableInterrupts, RecheckUsed
  <2>2. CASE KickDevice
    BY <1>1, <2>1, <2>2, Zenon DEF TypeOK, KickDevice
  <2>3. CASE Interrupt
    BY <1>1, <2>1, <2>3, Zenon DEF TypeOK, Interrupt
  <2>4. CASE GetUsed
    BY <1>1, <1>3, <2>1, <2>4, Zenon DEF TypeOK, GetUsed
  <2>5. CASE EnableInterrupts
    BY <1>1, <2>1, <2>5, Zenon DEF TypeOK, EnableInterrupts
  <2>6. CASE RecheckUsed
    BY <1>1, <2>1, <2>6, Zenon DEF TypeOK, RecheckUsed
  <2> QED
    BY <1>10, <2>2, <2>3, <2>4, <2>5, <2>6, Zenon DEF DriverStep
<1>11. ASSUME NEW s \in Side, Flush(s) PROVE Data
  BY <1>1, <1>11, BufferType DEF TypeOK, Flush
<1>. HIDE DEF Data
<1> QED
  BY <1>6, <1>7, <1>8, <1>9, <1>10, <1>11 DEF Next

\* What is used of the type invariant and of Distance in a step.
LEMMA Facts ==
  ASSUME TypeOK
  PROVE  /\ mem["avail_idx"] \in Index /\ mem["used_event"] \in Index
         /\ mem["no_interrupt"] \in Index /\ mem["used_idx"] \in Index
         /\ mem["avail_event"] \in Index
         /\ vq.last_avail \in Index /\ vq.used \in Index
         /\ dev.avail \in Index
         /\ drv.avail \in Index /\ drv.kicked \in Index /\ drv.used \in Index
         /\ \A i \in Index : Behind(i) \in Int /\ Behind(i) >= 0
         /\ Behind(drv.avail) = 0
         /\ \A i, j \in Index : Behind(i) = Behind(j) => i = j
         /\ \A i \in Index : Behind(i) # 0 => Behind(Inc(i)) = Behind(i) - 1
         /\ \A i, j \in Index :
               Behind(i) <= Behind(j) => Diff(i, j) = Behind(j) - Behind(i)
<1>1. /\ mem["avail_idx"] \in Index /\ mem["used_event"] \in Index
      /\ mem["no_interrupt"] \in Index /\ mem["used_idx"] \in Index
      /\ mem["avail_event"] \in Index
  BY DEF TypeOK, Field
<1>2. /\ vq.last_avail \in Index /\ vq.used \in Index
      /\ dev.avail \in Index
      /\ drv.avail \in Index /\ drv.kicked \in Index /\ drv.used \in Index
  BY DEF TypeOK
<1>3. ASSUME NEW i \in Index PROVE Behind(i) \in Int /\ Behind(i) >= 0
  <2>1. Behind(i) \in Index
    BY <1>2, Distance DEF Behind
  <2> QED
    BY <2>1, SizeAssumption DEF Index
<1>4. Behind(drv.avail) = 0
  BY <1>2, Distance DEF Behind
<1>5. ASSUME NEW i \in Index, NEW j \in Index
      PROVE  Behind(i) = Behind(j) => i = j
  BY <1>2, Distance DEF Behind
<1>6. ASSUME NEW i \in Index
      PROVE  Behind(i) # 0 => Behind(Inc(i)) = Behind(i) - 1
  BY <1>2, Distance DEF Behind
<1>7. ASSUME NEW i \in Index, NEW j \in Index
      PROVE  Behind(i) <= Behind(j) => Diff(i, j) = Behind(j) - Behind(i)
  BY <1>2, Between DEF Behind
<1> QED
  BY <1>1, <1>2, <1>3, <1>4, <1>5, <1>6, <1>7

\* The distances are natural numbers.
LEMMA Distances ==
  ASSUME TypeOK
  PROVE  /\ Behind(mem["avail_idx"]) \in Nat /\ Behind(mem["used_idx"]) \in Nat
         /\ Behind(vq.last_avail) \in Nat /\ Behind(vq.used) \in Nat
         /\ Behind(dev.avail) \in Nat
         /\ Behind(drv.kicked) \in Nat /\ Behind(drv.used) \in Nat
         /\ QSize \in Nat
  BY Facts, SizeAssumption

\* What the device does, does not concern the store buffer of the driver.
LEMMA DrvBufferKept ==
  ASSUME DrvBuffer, UNCHANGED <<drv, has_event_idx>>,
         buffer'["drv"] = buffer["drv"], mem'["avail_idx"] = mem["avail_idx"],
         mem'["used_event"] = mem["used_event"],
         mem'["no_interrupt"] = mem["no_interrupt"]
  PROVE  DrvBuffer'
<1>1. /\ EventField' = EventField /\ EventValue' = EventValue
      /\ mem'[EventField] = mem[EventField]
  BY DEF EventField, EventValue
<1>2. \A k : AvailIdx(k)' = AvailIdx(k)
  BY DEF AvailIdx
<1>3. \A k : Diff(drv'.avail, AvailIdx(k)') = Behind(AvailIdx(k))
  BY <1>2 DEF Behind
<1> QED
  BY <1>1, <1>2, <1>3 DEF DrvBuffer, Behind

\* The device reads avail->idx and fetches.
LEMMA DequeueInv ==
  ASSUME Inv, Dequeue
  PROVE  DevBuffer' /\ DrvBuffer' /\ Order' /\ Kicks' /\ Calls'
<1>1. TypeOK
  BY DEF Inv
<1>2. UNCHANGED <<mem, drv, has_event_idx, call>>
  BY DEF Dequeue, vring_kick, ReadAvailIdx, virtq_set_avail_event,
         RereadAvailIdx, virtq_dequeue_one, DequeueDone
<1>3. vq'.used = vq.used /\ vq'.notify_fd = vq.notify_fd
      /\ dev'.notify = dev.notify /\ ~dev.notify
  BY <1>1, Zenon DEF TypeOK, Dequeue, vring_kick, ReadAvailIdx,
     virtq_set_avail_event, RereadAvailIdx, virtq_dequeue_one, DequeueDone, DevAt
<1>4. buffer'["drv"] = buffer["drv"]
  BY <1>1 DEF TypeOK, Dequeue, vring_kick, ReadAvailIdx, virtq_set_avail_event,
         RereadAvailIdx, virtq_dequeue_one, DequeueDone, Store, Side
<1>5. DrvBuffer'
  BY <1>2, <1>4, DrvBufferKept DEF Inv
<1>6. Calls'
  BY <1>2, <1>3 DEF Inv, Calls
<1>7. DevBuffer' /\ Order' /\ Kicks'
  <2>1. CASE vring_kick
    BY <1>1, <1>2, <1>3, <2>1, Facts
       DEF Inv, TypeOK, vring_kick, DevAt, DevBuffer, Order, Kicks, Behind
  <2>2. CASE ReadAvailIdx
    <3>1. /\ dev'.avail = mem["avail_idx"]
          /\ dev'.at = IF has_event_idx THEN "event" ELSE "fetch"
          /\ dev.at = "avail" /\ UNCHANGED <<vq, buffer, kick>>
      BY <1>1, <2>2 DEF TypeOK, ReadAvailIdx, DevAt
    <3>2. DevBuffer'
      BY <1>2, <1>3, <3>1 DEF Inv, DevBuffer, DevAt
    <3> QED
      BY <1>1, <1>2, <1>3, <3>1, <3>2, Facts DEF Inv, Order, Kicks, Behind
  <2>3. CASE virtq_set_avail_event
    <3>1. buffer'["dev"] = << <<"avail_event", dev.avail>> >>
      <4>1. buffer["dev"] = <<>>
        BY <2>3 DEF Inv, DevBuffer, virtq_set_avail_event, DevAt
      <4> QED
        BY <1>1, <2>3, <4>1 DEF virtq_set_avail_event, Store, TypeOK, Side
    <3>2. /\ dev'.avail = dev.avail /\ dev'.at = "reread" /\ dev.at = "event"
          /\ UNCHANGED <<vq, kick>>
      BY <1>1, <2>3 DEF TypeOK, virtq_set_avail_event, DevAt
    <3> QED
      BY <1>2, <1>3, <3>1, <3>2 DEF Inv, DevAt, DevBuffer, Order, Kicks, Behind
  <2>4. CASE RereadAvailIdx
    <3>1. /\ dev'.avail = mem["avail_idx"]
          /\ dev'.at = IF mem["avail_idx"] = dev.avail THEN "fetch" ELSE "event"
          /\ dev.at = "reread" /\ buffer["dev"] = <<>>
          /\ UNCHANGED <<vq, buffer, kick>>
      BY <1>1, <2>4 DEF TypeOK, RereadAvailIdx, DevAt, smp_mb
    <3>2. DevBuffer'
      BY <1>2, <1>3, <3>1 DEF Inv, DevBuffer, DevAt
    <3>3. Order'
      BY <1>1, <1>2, <3>1, Distances DEF Inv, Order, Behind
    <3>4. Kicks'
      BY <1>2, <3>1 DEF Inv, Kicks, Behind
    <3> QED
      BY <3>2, <3>3, <3>4
  <2>5. CASE virtq_dequeue_one
    <3>1. dev.at = "fetch" /\ num_avail # 0
      BY <2>5 DEF virtq_dequeue_one, DevAt
    <3>2. num_avail = Behind(vq.last_avail) - Behind(dev.avail)
      BY <1>1, <3>1, Facts DEF Inv, Order, num_avail
    <3>3. num_avail \in Int /\ num_avail <= QSize /\ QSize \in Int
      <4>1. /\ Behind(vq.last_avail) \in Int /\ Behind(vq.used) \in Int
            /\ Behind(mem["used_idx"]) \in Int /\ Behind(drv.used) \in Int
            /\ Behind(dev.avail) \in Int /\ Behind(dev.avail) >= 0
        BY <1>1, Facts
      <4> QED
        BY <3>2, <4>1, SizeAssumption DEF Inv, Order
    <3>4. /\ vq'.last_avail = Inc(vq.last_avail)
          /\ dev'.at = "fetch" /\ dev'.avail = dev.avail
          /\ UNCHANGED <<buffer, kick>>
      BY <1>1, <2>5, <3>1, <3>3 DEF virtq_dequeue_one, TypeOK
    <3>5. Behind(Inc(vq.last_avail)) = Behind(vq.last_avail) - 1
      BY <1>1, <3>1, <3>2, Facts DEF Inv, Order
    <3>6. DevBuffer'
      BY <1>2, <1>3, <3>1, <3>4 DEF Inv, DevBuffer, DevAt
    <3>7. Order'
      <4>1. Behind(dev.avail) <= Behind(vq.last_avail) - 1
        BY <1>1, <3>1, <3>2, Distances DEF Inv, Order
      <4> QED
        BY <1>1, <1>2, <1>3, <3>1, <3>4, <3>5, <4>1, Distances
           DEF Inv, Order, Behind
    <3> QED
      BY <1>2, <3>1, <3>4, <3>6, <3>7 DEF Inv, Kicks, Behind
  <2>6. CASE DequeueDone
    <3>1. /\ dev.at = "fetch" /\ dev'.at = "idle"
          /\ UNCHANGED <<vq, buffer, kick>>
      BY <1>1, <2>6 DEF DequeueDone, DevAt, TypeOK
    <3>2. dev.avail = vq.last_avail
      <4>1. num_avail = 0
        BY <2>6 DEF DequeueDone
      <4>2. /\ vq.last_avail \in Index /\ dev.avail \in Index
            /\ Behind(vq.last_avail) \in Int /\ Behind(dev.avail) \in Int
            /\ num_avail = Behind(vq.last_avail) - Behind(dev.avail)
        BY <1>1, <3>1, Facts DEF Inv, Order, num_avail
      <4>3. Behind(vq.last_avail) = Behind(dev.avail)
        BY <4>1, <4>2
      <4> QED
        BY <1>1, <4>2, <4>3, Facts
    <3> QED
      BY <1>2, <1>3, <3>1, <3>2 DEF Inv, DevAt, DevBuffer, Order, Kicks, Behind
  <2> QED
    BY <2>1, <2>2, <2>3, <2>4, <2>5, <2>6 DEF Dequeue
<1> QED
  BY <1>5, <1>6, <1>7

\* The device reports a request as used.
LEMMA PushInv ==
  ASSUME Inv, virtq_push
  PROVE  DevBuffer' /\ DrvBuffer' /\ Order' /\ Kicks' /\ Calls'
<1>1. TypeOK
  BY DEF Inv
<1>2. /\ UNCHANGED <<mem, drv, has_event_idx, kick, call>>
      /\ vq'.used = Inc(vq.used) /\ vq'.last_avail = vq.last_avail
      /\ vq'.notify_fd = vq.notify_fd /\ vq.used # vq.last_avail
      /\ dev'.at = dev.at /\ dev'.avail = dev.avail /\ dev'.notify
      /\ dev.at \in {"idle", "fetch"} /\ ~dev.notify
  BY <1>1 DEF virtq_push, DevAt, TypeOK
<1>3. buffer["dev"] = <<>> /\ mem["used_idx"] = vq.used
  BY <1>2 DEF Inv, DevBuffer, DevAt
<1>4. /\ buffer'["dev"] = << <<"used_idx", Inc(vq.used)>> >>
      /\ buffer'["drv"] = buffer["drv"]
  BY <1>1, <1>2, <1>3 DEF virtq_push, Store, TypeOK, Side
<1>5. Behind(Inc(vq.used)) = Behind(vq.used) - 1
      /\ Behind(vq.last_avail) <= Behind(vq.used) - 1
  <2>1. Behind(vq.last_avail) # Behind(vq.used)
    BY <1>1, <1>2, Facts
  <2>2. Behind(vq.last_avail) <= Behind(vq.used) - 1
    BY <1>1, <2>1, Distances DEF Inv, Order
  <2>3. Behind(vq.used) # 0 /\ vq.used \in Index
    BY <1>1, <2>2, Distances, Facts
  <2> QED
    BY <1>1, <2>2, <2>3, Facts
<1>6. DevBuffer'
  BY <1>2, <1>3, <1>4 DEF Inv, DevBuffer, DevAt
<1>7. DrvBuffer'
  BY <1>2, <1>4, DrvBufferKept DEF Inv
<1>8. Order'
  BY <1>1, <1>2, <1>3, <1>5, Distances DEF Inv, Order, Behind
<1>9. Kicks'
  BY <1>2 DEF Inv, Kicks, Behind
<1>10. Calls'
  BY <1>2 DEF Inv, Calls
<1> QED
  BY <1>6, <1>7, <1>8, <1>9, <1>10

\* The device interrupts the driver unless it need not.
LEMMA NotifyInv ==
  ASSUME Inv, virtq_notify
  PROVE  DevBuffer' /\ DrvBuffer' /\ Order' /\ Kicks' /\ Calls'
<1>1. TypeOK
  BY DEF Inv
<1>2. /\ UNCHANGED <<mem, buffer, vq, drv, has_event_idx, kick>>
      /\ dev'.at = dev.at /\ dev'.avail = dev.avail /\ ~dev'.notify
      /\ dev.notify /\ buffer["dev"] = <<>>
      /\ call' = (call \/ (virtq_need_notify /\ vq.notify_fd))
  BY <1>1 DEF virtq_notify, smp_mb, TypeOK
<1>3. DevBuffer'
  BY <1>2 DEF Inv, DevBuffer, DevAt
<1>4. DrvBuffer' /\ Order' /\ Kicks'
  <2>1. DrvBuffer'
    BY <1>2, DrvBufferKept DEF Inv
  <2> QED
    BY <1>2, <2>1 DEF Inv, Order, Kicks, Behind
<1>5. Calls'
  <2>1. SUFFICES ASSUME drv.at \in {"idle", "kick"}, vq.notify_fd, ~call'
                 PROVE  drv.used = vq.used
    BY <1>2 DEF Calls
  <2>2. ~call /\ ~virtq_need_notify
    BY <1>2, <2>1
  <2>3. drv.used = vq.used \/ Inc(drv.used) = vq.used
    BY <2>1, <2>2, Zenon DEF Inv, Calls
  <2>4. mem[EventField] = EventValue
    BY <2>1 DEF Inv, DrvBuffer
  <2> QED
    BY <2>2, <2>3, <2>4 DEF virtq_need_notify, EventField, EventValue
<1> QED
  BY <1>3, <1>4, <1>5

\* The client sets callfd.
LEMMA SetFdInv ==
  ASSUME Inv, virtq_set_notify_fd
  PROVE  DevBuffer' /\ DrvBuffer' /\ Order' /\ Kicks' /\ Calls'
<1>1. /\ UNCHANGED <<mem, buffer, dev, drv, has_event_idx, kick>>
      /\ vq'.used = vq.used /\ vq'.last_avail = vq.last_avail /\ call'
  BY DEF virtq_set_notify_fd, Inv, TypeOK
<1>2. DevBuffer' /\ DrvBuffer'
  BY <1>1, DrvBufferKept DEF Inv, DevBuffer, DevAt
<1>3. Order' /\ Kicks' /\ Calls'
  BY <1>1 DEF Inv, Order, Kicks, Calls, Behind
<1> QED
  BY <1>2, <1>3

\* The driver adds a request: every index gets one further behind.
LEMMA AddInv ==
  ASSUME Inv, AddRequest
  PROVE  DevBuffer' /\ DrvBuffer' /\ Order' /\ Kicks' /\ Calls'
<1>1. TypeOK
  BY DEF Inv
<1>2. /\ UNCHANGED <<mem, vq, dev, has_event_idx, kick, call>>
      /\ drv.at \in {"idle", "kick"} /\ Behind(drv.used) < QSize
      /\ drv'.at = "kick" /\ drv'.avail = Inc(drv.avail)
      /\ drv'.kicked = drv.kicked /\ drv'.used = drv.used
  BY <1>1 DEF AddRequest, TypeOK, Behind
<1>3. /\ buffer'["dev"] = buffer["dev"]
      /\ buffer'["drv"] = Append(buffer["drv"], <<"avail_idx", Inc(drv.avail)>>)
  BY <1>1, <1>2 DEF AddRequest, Store, TypeOK, Side
<1>4. ASSUME NEW i \in Index, Behind(i) <= Behind(drv.used)
      PROVE  Diff(drv'.avail, i) = Behind(i) + 1
  <2>1. /\ Behind(i) < Wrap - 1 /\ drv.avail \in Index
    BY <1>1, <1>2, <1>4, Facts, SizeAssumption
  <2>2. Diff(drv.avail, i) < Wrap - 1 => Diff(Inc(drv.avail), i) = Diff(drv.avail, i) + 1
    BY <2>1, Distance
  <2> QED
    BY <1>2, <2>1, <2>2 DEF Behind
<1>5. DevBuffer'
  BY <1>2, <1>3 DEF Inv, DevBuffer, DevAt
<1>6. Order' /\ Kicks'
  <2>1. /\ mem["avail_idx"] \in Index /\ mem["used_idx"] \in Index
        /\ vq.last_avail \in Index /\ vq.used \in Index /\ dev.avail \in Index
        /\ drv.kicked \in Index /\ drv.used \in Index
    BY <1>1, Facts
  <2>2. /\ Diff(drv'.avail, mem["avail_idx"]) = Behind(mem["avail_idx"]) + 1
        /\ Diff(drv'.avail, mem["used_idx"]) = Behind(mem["used_idx"]) + 1
        /\ Diff(drv'.avail, vq.last_avail) = Behind(vq.last_avail) + 1
        /\ Diff(drv'.avail, vq.used) = Behind(vq.used) + 1
        /\ Diff(drv'.avail, drv.kicked) = Behind(drv.kicked) + 1
        /\ Diff(drv'.avail, drv.used) = Behind(drv.used) + 1
        /\ dev.at \in {"event", "reread", "fetch"} =>
              Diff(drv'.avail, dev.avail) = Behind(dev.avail) + 1
    BY <1>1, <1>4, <2>1, Distances DEF Inv, Order, Kicks
  <2>3. Order'
    BY <1>1, <1>2, <2>2, Distances DEF Inv, Order, Behind
  <2>4. Kicks'
    BY <1>1, <1>2, <2>2, Distances DEF Inv, Kicks, Behind
  <2> QED
    BY <2>3, <2>4
<1>7. Calls'
  BY <1>2 DEF Inv, Calls
<1>8. DrvBuffer'
  <2>. DEFINE s == buffer["drv"]
  <2>0. s \in Seq(Field \X Index)
    BY <1>1 DEF TypeOK, Side
  <2>. PICK n \in Nat : n = Len(s)
    BY <2>0
  <2>1. /\ \A k \in 1 .. n : s[k][1] = "avail_idx"
        /\ \A j, k \in 0 .. n :
               j <= k => Behind(AvailIdx(k)) <= Behind(AvailIdx(j))
        /\ AvailIdx(n) = drv.avail
    <3>1. CASE drv.at = "idle"
      <4>1. s = <<>> /\ n = 0 /\ mem["avail_idx"] = drv.avail
        BY <3>1 DEF Inv, DrvBuffer
      <4>2. Behind(mem["avail_idx"]) \in Nat
        BY <1>1, Distances
      <4> QED
        BY <4>1, <4>2 DEF AvailIdx
    <3> QED
      BY <1>2, <3>1 DEF Inv, DrvBuffer
  <2>2. s \in Seq(Field \X Index) /\ n = Len(s)
    BY <2>0
  <2>3. ASSUME NEW k \in 0 .. n
        PROVE  /\ AvailIdx(k) \in Index
               /\ Behind(AvailIdx(k)) \in Nat
               /\ Behind(AvailIdx(k)) <= Behind(drv.used)
    <3>1. AvailIdx(k) \in Index
      <4>1. CASE k = 0
        BY <1>1, <4>1, Facts DEF AvailIdx
      <4>2. CASE k # 0
        <5>1. s[k] \in Field \X Index
          BY <2>2, <4>2
        <5> QED
          BY <4>2, <5>1 DEF AvailIdx
      <4> QED
        BY <4>1, <4>2
    <3>2. Behind(AvailIdx(k)) <= Behind(mem["avail_idx"])
      BY <2>1, <2>2 DEF AvailIdx
    <3>3. Behind(AvailIdx(k)) \in Nat
      BY <1>1, <3>1, Facts
    <3> QED
      BY <1>1, <3>1, <3>2, <3>3, Distances DEF Inv, Order
  <2>4. /\ Len(buffer'["drv"]) = n + 1
        /\ \A k \in 1 .. n : buffer'["drv"][k] = s[k]
        /\ buffer'["drv"][n + 1] = <<"avail_idx", drv'.avail>>
    BY <1>2, <1>3, <2>2
  <2>. HIDE DEF s
  <2>5. \A k \in 1 .. n + 1 : buffer'["drv"][k][1] = "avail_idx"
    BY <2>1, <2>2, <2>4
  <2>6. /\ \A k \in 0 .. n : AvailIdx(k)' = AvailIdx(k)
        /\ AvailIdx(n + 1)' = drv'.avail
    <3>1. AvailIdx(n + 1)' = drv'.avail
      BY <2>2, <2>4 DEF AvailIdx
    <3>2. ASSUME NEW k \in 0 .. n PROVE AvailIdx(k)' = AvailIdx(k)
      <4>1. CASE k = 0
        BY <1>2, <4>1 DEF AvailIdx
      <4>2. CASE k # 0
        <5>1. buffer'["drv"][k] = buffer["drv"][k]
          BY <2>2, <2>4, <4>2 DEF s
        <5> QED
          BY <4>2, <5>1 DEF AvailIdx
      <4> QED
        BY <4>1, <4>2
    <3> QED
      BY <3>1, <3>2
  <2>7. ASSUME NEW j \in 0 .. n + 1, NEW k \in 0 .. n + 1, j <= k
        PROVE  Diff(drv'.avail, AvailIdx(k)') <= Diff(drv'.avail, AvailIdx(j)')
    <3>1. drv'.avail \in Index /\ Diff(drv'.avail, drv'.avail) = 0
      <4>1. drv'.avail \in Index
        BY <1>1, <1>2, Distance, Facts
      <4> QED
        BY <4>1, Distance
    <3>2. ASSUME NEW i \in 0 .. n
          PROVE  /\ Diff(drv'.avail, AvailIdx(i)') = Behind(AvailIdx(i)) + 1
                 /\ Behind(AvailIdx(i)) \in Nat
      BY <1>4, <2>3, <2>6
    <3>3. CASE k = n + 1
      <4>1. CASE j = n + 1
        BY <2>6, <3>1, <3>3, <4>1
      <4>2. CASE j # n + 1
        <5>1. j \in 0 .. n
          BY <2>2, <4>2
        <5> QED
          BY <2>6, <3>1, <3>2, <3>3, <5>1
      <4> QED
        BY <4>1, <4>2
    <3>4. CASE k # n + 1
      <4>1. j \in 0 .. n /\ k \in 0 .. n
        BY <2>2, <2>7, <3>4
      <4>2. Behind(AvailIdx(k)) <= Behind(AvailIdx(j))
        BY <2>1, <2>7, <4>1
      <4> QED
        BY <3>2, <4>1, <4>2
    <3> QED
      BY <3>3, <3>4
  <2>8. mem'[EventField'] = EventValue'
    BY <1>2 DEF Inv, DrvBuffer, EventField, EventValue
  <2> QED
    BY <1>2, <2>4, <2>5, <2>6, <2>7, <2>8 DEF DrvBuffer, Behind
<1> QED
  BY <1>5, <1>6, <1>7, <1>8

\* The driver decides whether to kick.  Unless kickfd is signalled, the device
\* would be kicked for any request that it is not about to fetch.
LEMMA KickInv ==
  ASSUME Inv, KickDevice
  PROVE  DevBuffer' /\ DrvBuffer' /\ Order' /\ Kicks' /\ Calls'
<1>1. TypeOK
  BY DEF Inv
<1>2. /\ UNCHANGED <<mem, buffer, vq, dev, has_event_idx, call>>
      /\ drv.at = "kick" /\ buffer["drv"] = <<>>
      /\ drv'.at = "idle" /\ drv'.avail = drv.avail
      /\ drv'.kicked = drv.avail /\ drv'.used = drv.used
      /\ kick' = (kick \/ NeedKick)
  BY <1>1 DEF KickDevice, smp_mb, TypeOK
<1>3. mem["avail_idx"] = drv.avail /\ Behind(drv.avail) = 0
  BY <1>1, <1>2, Facts DEF Inv, DrvBuffer, AvailIdx
<1>4. DevBuffer' /\ Order'
  BY <1>2 DEF Inv, DevBuffer, DevAt, Order, Behind
<1>5. DrvBuffer'
  BY <1>2, <1>3 DEF Inv, DrvBuffer, EventField, EventValue
<1>6. Calls'
  BY <1>2 DEF Inv, Calls
<1>7. ASSUME NEW i \in Index, ~kick', Behind(i) <= Behind(drv.kicked),
             has_event_idx => mem["avail_event"] = i
      PROVE  i = drv.avail
  <2>1. ~kick /\ has_event_idx
        /\ ~(Diff(drv.avail, i + 1) < Diff(drv.avail, drv.kicked))
    BY <1>2, <1>7, Zenon DEF NeedKick
  <2>2. Diff(drv.avail, i + 1) = Behind(Inc(i))
    <3>1. drv.avail \in Index
      BY <1>1, Facts
    <3> QED
      BY <3>1, Distance DEF Behind
  <2>3. ~(Behind(Inc(i)) < Behind(drv.kicked))
    BY <2>1, <2>2 DEF Behind
  <2>4. Behind(i) \in Nat /\ (Behind(i) # 0 => Behind(Inc(i)) = Behind(i) - 1)
    BY <1>1, Facts
  <2>5. Behind(i) = Behind(drv.avail)
    BY <1>1, <1>3, <1>7, <2>3, <2>4, Distances
  <2> QED
    BY <1>1, <2>5, Facts
<1>8. Kicks'
  <2>1. vq.last_avail \in Index /\ dev.avail \in Index
    BY <1>1, Facts
  <2>2. ~kick' /\ dev.at = "idle" => vq.last_avail = drv.avail
    BY <1>2, <1>7, <2>1, Zenon DEF Inv, DevBuffer, Kicks
  <2>3. ~kick' /\ dev.at = "fetch" => dev.avail = drv.avail
    BY <1>2, <1>7, <2>1, Zenon DEF Inv, DevBuffer, Kicks
  <2>4. Behind(drv.used) >= 0 /\ Behind(drv.used) \in Int
    BY <1>1, Distances
  <2> QED
    BY <1>2, <1>3, <2>2, <2>3, <2>4 DEF Kicks, Behind
<1> QED
  BY <1>4, <1>5, <1>6, <1>8

\* The interrupt handler of the driver.
LEMMA InterruptInv ==
  ASSUME Inv, Interrupt \/ GetUsed \/ EnableInterrupts \/ RecheckUsed
  PROVE  DevBuffer' /\ DrvBuffer' /\ Order' /\ Kicks' /\ Calls'
<1>1. TypeOK
  BY DEF Inv
<1>2. /\ UNCHANGED <<mem, vq, dev, has_event_idx, kick>>
      /\ drv'.avail = drv.avail /\ drv'.kicked = drv.kicked
      /\ drv'.used = drv.used \/ drv'.used = mem["used_idx"]
      /\ drv.at # "kick" /\ drv'.at # "kick"
  BY <1>1, Zenon DEF Interrupt, GetUsed, EnableInterrupts, RecheckUsed, TypeOK
<1>3. buffer'["dev"] = buffer["dev"]
  BY <1>1 DEF Interrupt, GetUsed, EnableInterrupts, RecheckUsed, TypeOK, Store, Side
<1>4. DevBuffer'
  BY <1>2, <1>3 DEF Inv, DevBuffer, DevAt
<1>5. mem["avail_idx"] = drv.avail /\ drv.kicked = drv.avail /\ Behind(drv.avail) = 0
  BY <1>1, <1>2, Facts DEF Inv, DrvBuffer, Kicks
<1>6. Order'
  BY <1>1, <1>2, Distances DEF Inv, Order, Behind
<1>7. Kicks'
  <2>1. Behind(drv'.used) >= 0
    BY <1>1, <1>2, Distances
  <2> QED
    BY <1>1, <1>2, <1>5, <2>1, Distances DEF Inv, Kicks, Behind
<1>8. DrvBuffer' /\ Calls'
  <2>1. CASE Interrupt
    <3>1. /\ drv.at = "idle" /\ buffer["drv"] = <<>>
          /\ drv'.at = "get"
      BY <1>1, <2>1 DEF Interrupt, TypeOK, Inv, DrvBuffer
    <3>2. \/ buffer'["drv"] = <<>>
          \/ buffer'["drv"] = << <<EventField, 1>> >>
      BY <1>1, <2>1, <3>1 DEF Interrupt, Store, TypeOK, Side, EventField
    <3>3. \A k \in 1 .. Len(buffer'["drv"]) : buffer'["drv"][k][1] = EventField
      BY <3>2
    <3> QED
      BY <1>2, <1>5, <3>1, <3>3 DEF DrvBuffer, Calls, EventField
  <2>2. CASE GetUsed
    <3>1. drv.at = "get" /\ drv'.at = "enable" /\ UNCHANGED buffer
      BY <1>1, <2>2 DEF GetUsed, TypeOK
    <3> QED
      BY <1>2, <1>5, <3>1 DEF Inv, DrvBuffer, Calls, EventField
  <2>3. CASE EnableInterrupts
    <3>1. drv.at = "enable" /\ drv'.at = "recheck" /\ drv'.used = drv.used
      BY <1>1, <2>3 DEF EnableInterrupts, TypeOK
    <3>2. buffer'["drv"] = Append(buffer["drv"], <<EventField, EventValue>>)
      <4>1. CASE has_event_idx
        BY <1>1, <2>3, <4>1 DEF EnableInterrupts, Store, TypeOK, Side,
                                EventField, EventValue
      <4>2. CASE ~has_event_idx
        BY <1>1, <2>3, <4>2 DEF EnableInterrupts, Store, TypeOK, Side,
                                EventField, EventValue
      <4> QED
        BY <4>1, <4>2
    <3>3. /\ buffer["drv"] \in Seq(Field \X Index)
          /\ \A k \in 1 .. Len(buffer["drv"]) : buffer["drv"][k][1] = EventField
      BY <1>1, <3>1 DEF TypeOK, Side, Inv, DrvBuffer
    <3>4. /\ \A k \in 1 .. Len(buffer'["drv"]) : buffer'["drv"][k][1] = EventField
          /\ buffer'["drv"] # <<>>
          /\ buffer'["drv"][Len(buffer'["drv"])][2] = EventValue
      BY <3>2, <3>3
    <3>5. EventField' = EventField /\ EventValue' = EventValue
      BY <1>2, <3>1 DEF EventField, EventValue
    <3> QED
      BY <1>2, <1>5, <3>1, <3>4, <3>5 DEF DrvBuffer, Calls
  <2>4. CASE RecheckUsed
    <3>1. /\ drv.at = "recheck" /\ drv'.used = drv.used /\ UNCHANGED <<buffer, call>>
          /\ drv'.at = IF mem["used_idx"] = drv.used THEN "idle" ELSE "get"
          /\ buffer["drv"] = <<>>
      BY <1>1, <2>4 DEF RecheckUsed, smp_mb, TypeOK
    <3>2. DrvBuffer'
      BY <1>2, <1>5, <3>1 DEF Inv, DrvBuffer, EventField, EventValue
    <3>3. Calls'
      BY <1>2, <3>1 DEF Inv, DevBuffer, Calls
    <3> QED
      BY <3>2, <3>3
  <2> QED
    BY <2>1, <2>2, <2>3, <2>4
<1> QED
  BY <1>4, <1>6, <1>7, <1>8

\* A store of the device becomes visible.
LEMMA DevFlushInv ==
  ASSUME Inv, Flush("dev")
  PROVE  DevBuffer' /\ DrvBuffer' /\ Order' /\ Kicks' /\ Calls'
<1>1. TypeOK
  BY DEF Inv
<1>2. /\ UNCHANGED <<has_event_idx, vq, dev, drv, kick, call>>
      /\ buffer["dev"] # <<>>
      /\ buffer'["dev"] = Tail(buffer["dev"]) /\ buffer'["drv"] = buffer["drv"]
      /\ mem' = [mem EXCEPT ![Head(buffer["dev"])[1]] = Head(buffer["dev"])[2]]
      /\ mem \in [Field -> Index]
  BY <1>1 DEF Flush, TypeOK, Side
<1>3. CASE DevAt("reread") /\ buffer["dev"] = << <<"avail_event", dev.avail>> >>
  <2>1. /\ buffer'["dev"] = <<>>
        /\ mem'["avail_event"] = dev.avail
        /\ mem'["used_idx"] = mem["used_idx"] /\ mem'["avail_idx"] = mem["avail_idx"]
        /\ mem'["used_event"] = mem["used_event"]
        /\ mem'["no_interrupt"] = mem["no_interrupt"]
    BY <1>2, <1>3 DEF Field
  <2>2. DevBuffer'
    BY <1>2, <1>3, <2>1 DEF Inv, DevBuffer, DevAt
  <2>3. DrvBuffer'
    BY <1>2, <2>1, DrvBufferKept DEF Inv
  <2> QED
    BY <1>2, <2>1, <2>2, <2>3 DEF Inv, Order, Kicks, Calls, Behind
<1>4. CASE dev.notify /\ buffer["dev"] = << <<"used_idx", vq.used>> >>
  <2>1. /\ buffer'["dev"] = <<>>
        /\ mem'["avail_event"] = mem["avail_event"]
        /\ mem'["used_idx"] = vq.used /\ mem'["avail_idx"] = mem["avail_idx"]
        /\ mem'["used_event"] = mem["used_event"]
        /\ mem'["no_interrupt"] = mem["no_interrupt"]
    BY <1>2, <1>4 DEF Field
  <2>2. DevBuffer'
    BY <1>2, <1>4, <2>1 DEF Inv, DevBuffer, DevAt
  <2>3. DrvBuffer'
    BY <1>2, <2>1, DrvBufferKept DEF Inv
  <2>4. Order'
    BY <1>1, <1>2, <2>1, Distances DEF Inv, Order, Behind
  <2> QED
    BY <1>2, <2>1, <2>2, <2>3, <2>4 DEF Inv, Kicks, Calls, Behind
<1> QED
  BY <1>2, <1>3, <1>4 DEF Inv, DevBuffer

\* A store of the driver becomes visible.
LEMMA DrvFlushInv ==
  ASSUME Inv, Flush("drv")
  PROVE  DevBuffer' /\ DrvBuffer' /\ Order' /\ Kicks' /\ Calls'
<1>. DEFINE s == buffer["drv"]
<1>1. TypeOK
  BY DEF Inv
<1>2. /\ UNCHANGED <<has_event_idx, vq, dev, drv, kick, call>>
      /\ s # <<>>
      /\ buffer'["drv"] = Tail(s) /\ buffer'["dev"] = buffer["dev"]
      /\ mem' = [mem EXCEPT ![Head(s)[1]] = Head(s)[2]]
      /\ mem \in [Field -> Index] /\ s \in Seq(Field \X Index)
  BY <1>1 DEF Flush, TypeOK, Side
<1>. PICK n \in Nat : n + 1 = Len(s)
  <2>1. Len(s) \in Nat /\ Len(s) # 0
    BY <1>2
  <2>. HIDE DEF s
  <2>2. Len(s) - 1 \in Nat /\ (Len(s) - 1) + 1 = Len(s)
    BY <2>1
  <2> QED
    BY <2>2
<1>3. /\ s[1] \in Field \X Index
      /\ mem' = [mem EXCEPT ![s[1][1]] = s[1][2]]
      /\ Len(buffer'["drv"]) = n
      /\ \A k \in 1 .. n : buffer'["drv"][k] = s[k + 1]
      /\ buffer'["drv"] = <<>> => n = 0
  <2>1. s[1] \in Field \X Index /\ Head(s) = s[1]
    BY <1>2
  <2>2. Len(Tail(s)) = n /\ \A k \in 1 .. n : Tail(s)[k] = s[k + 1]
    BY <1>2
  <2>3. n = 0 \/ buffer'["drv"] # <<>>
    <3>1. Len(<<>>) = 0
      OBVIOUS
    <3> QED
      BY <1>2, <2>2, <3>1, Zenon
  <2>. HIDE DEF s
  <2> QED
    BY <1>2, <2>1, <2>2, <2>3, Zenon
<1>. HIDE DEF s
<1>4. drv.at # "idle"
  BY <1>2 DEF Inv, DrvBuffer, s
<1>5. CASE drv.at = "kick"
  <2>1. /\ \A k \in 1 .. n + 1 : s[k][1] = "avail_idx"
        /\ \A j, k \in 0 .. n + 1 :
               j <= k => Behind(AvailIdx(k)) <= Behind(AvailIdx(j))
        /\ AvailIdx(n + 1) = drv.avail
    BY <1>5 DEF Inv, DrvBuffer, s
  <2>2. /\ mem'["avail_event"] = mem["avail_event"]
        /\ mem'["used_idx"] = mem["used_idx"] /\ mem'["avail_idx"] = s[1][2]
        /\ mem'["used_event"] = mem["used_event"]
        /\ mem'["no_interrupt"] = mem["no_interrupt"]
    <3>1. s[1][1] = "avail_idx"
      BY <2>1
    <3> QED
      BY <1>2, <1>3, <3>1 DEF Field
  <2>3. ASSUME NEW k \in 0 .. n PROVE AvailIdx(k)' = AvailIdx(k + 1)
    <3>1. CASE k = 0
      BY <2>2, <3>1 DEF AvailIdx, s
    <3>2. CASE k # 0
      BY <1>3, <3>2 DEF AvailIdx, s
    <3> QED
      BY <3>1, <3>2
  <2>4. Behind(AvailIdx(1)) <= Behind(mem["avail_idx"]) /\ AvailIdx(1) \in Index
    <3>1. Behind(AvailIdx(1)) <= Behind(AvailIdx(0))
      BY <2>1
    <3> QED
      BY <1>3, <3>1 DEF AvailIdx, s
  <2>5. mem'["avail_idx"] = AvailIdx(1) /\ Behind(AvailIdx(1)) \in Nat
    <3>1. mem'["avail_idx"] = AvailIdx(1)
      BY <2>2 DEF AvailIdx, s
    <3> QED
      BY <1>1, <2>4, <3>1, Facts
  <2>6. DevBuffer'
    BY <1>2, <2>2 DEF Inv, DevBuffer, DevAt
  <2>7. Order' /\ Kicks'
    <3>1. Order'
      <4>1. /\ Behind(mem["avail_idx"]) \in Int /\ Behind(vq.last_avail) \in Int
            /\ Behind(dev.avail) \in Int
        BY <1>1, Facts DEF Inv
      <4>2. Order
        BY DEF Inv
      <4>3. /\ Behind(mem'["avail_idx"]) <= Behind(vq.last_avail)
            /\ dev.at \in {"event", "reread", "fetch"} =>
                   Behind(mem'["avail_idx"]) <= Behind(dev.avail)
        BY <2>4, <2>5, <4>1, <4>2 DEF Order
      <4> QED
        BY <1>2, <2>2, <4>2, <4>3, Zenon DEF Order, Behind
    <3>2. Kicks'
      <4>1. /\ Behind(mem["avail_idx"]) <= Behind(drv.kicked)
            /\ Behind(drv.kicked) \in Int /\ Behind(mem["avail_idx"]) \in Int
        BY <1>1, Facts DEF Inv, Kicks
      <4>2. Behind(mem'["avail_idx"]) <= Behind(drv.kicked)
        BY <2>4, <2>5, <4>1
      <4>3. Diff(drv'.avail, mem'["avail_idx"]) <= Diff(drv'.avail, drv'.kicked)
        BY <1>2, <4>2, Zenon DEF Behind
      <4>4. Kicks
        BY DEF Inv
      <4> QED
        BY <1>2, <1>5, <4>3, <4>4, Zenon DEF Kicks, Behind
    <3> QED
      BY <3>1, <3>2
  <2>8. DrvBuffer'
    <3>1. \A k \in 1 .. n : buffer'["drv"][k][1] = "avail_idx"
      BY <1>3, <2>1
    <3>2. ASSUME NEW j \in 0 .. n, NEW k \in 0 .. n, j <= k
          PROVE  Diff(drv'.avail, AvailIdx(k)') <= Diff(drv'.avail, AvailIdx(j)')
      <4>1. Behind(AvailIdx(k + 1)) <= Behind(AvailIdx(j + 1))
        BY <2>1, <3>2
      <4> QED
        BY <1>2, <2>3, <4>1 DEF Behind
    <3>3. AvailIdx(n)' = drv'.avail
      BY <1>2, <2>1, <2>3
    <3>4. mem'[EventField'] = EventValue'
      BY <1>2, <1>5, <2>2 DEF Inv, DrvBuffer, EventField, EventValue
    <3> QED
      BY <1>2, <1>3, <1>5, <3>1, <3>2, <3>3, <3>4, Zenon DEF DrvBuffer, Behind
  <2> QED
    BY <1>2, <2>6, <2>7, <2>8 DEF Inv, Calls
<1>6. CASE drv.at \in {"get", "enable", "recheck"}
  <2>1. /\ \A k \in 1 .. n + 1 : s[k][1] = EventField
        /\ drv.at = "recheck" => s[n + 1][2] = EventValue
    BY <1>2, <1>6 DEF Inv, DrvBuffer, s
  <2>2. /\ mem'["avail_event"] = mem["avail_event"]
        /\ mem'["used_idx"] = mem["used_idx"] /\ mem'["avail_idx"] = mem["avail_idx"]
        /\ mem'[EventField] = s[1][2]
    <3>1. s[1][1] = EventField
      BY <2>1
    <3> QED
      BY <1>2, <1>3, <3>1 DEF Field, EventField
  <2>3. DevBuffer'
    BY <1>2, <2>2 DEF Inv, DevBuffer, DevAt
  <2>4. Order' /\ Kicks'
    BY <1>2, <2>2 DEF Inv, Order, Kicks, Behind
  <2>5. DrvBuffer'
    <3>1. EventField' = EventField /\ EventValue' = EventValue
      BY <1>2 DEF EventField, EventValue
    <3>2. mem'["avail_idx"] = drv'.avail
      BY <1>2, <1>6, <2>2 DEF Inv, DrvBuffer
    <3>3. \A k \in 1 .. n : buffer'["drv"][k][1] = EventField
      BY <1>3, <2>1
    <3>4. drv.at = "recheck" /\ buffer'["drv"] # <<>> =>
              buffer'["drv"][n][2] = EventValue
      BY <1>3, <2>1
    <3>5. drv.at = "recheck" /\ buffer'["drv"] = <<>> =>
              mem'[EventField] = EventValue
      BY <1>3, <2>1, <2>2
    <3> QED
      BY <1>2, <1>3, <1>6, <3>1, <3>2, <3>3, <3>4, <3>5 DEF DrvBuffer
  <2> QED
    BY <1>2, <1>6, <2>3, <2>4, <2>5 DEF Calls
<1> QED
  BY <1>1, <1>4, <1>5, <1>6 DEF TypeOK

\* Every step keeps the inductive invariant.
LEMMA NextInv == Inv /\ [Next]_vars => Inv'
<1>. SUFFICES ASSUME Inv, [Next]_vars PROVE Inv'
  OBVIOUS
<1>1. CASE UNCHANGED vars
  <2>1. UNCHANGED <<mem, buffer, has_event_idx, vq, dev, drv, kick, call>>
    BY <1>1 DEF vars
  <2>2. TypeOK' /\ DevBuffer' /\ DrvBuffer'
    BY <2>1, DrvBufferKept DEF Inv, TypeOK, DevBuffer, DevAt
  <2> QED
    BY <2>1, <2>2 DEF Inv, Order, Kicks, Calls, Behind
<1>2. CASE Next
  <2>1. TypeOK'
    BY <1>2, NextType
  <2>2. DevBuffer' /\ DrvBuffer' /\ Order' /\ Kicks' /\ Calls'
    BY <1>2, DequeueInv, PushInv, NotifyInv, SetFdInv, AddInv, KickInv,
       InterruptInv, DevFlushInv, DrvFlushInv DEF Next, DriverStep, Side
  <2> QED
    BY <2>1, <2>2 DEF Inv
<1> QED
  BY <1>1, <1>2

\* The inductive invariant holds in every reachable state.
LEMMA Invariance == Spec => []Inv
  BY InitInv, NextInv, PTL DEF Spec

-----------------------------------------------------------------------------
(* The properties. *)

\* No kick is lost, for any size of the virtqueue and width of its indices:
\* virtq_dequeue_many leaves no request behind that the driver has not kicked
\* the device for.
THEOREM KicksArrive == Spec => []NoLostKick
<1>1. Inv => NoLostKick
  <2>1. SUFFICES ASSUME Inv, drv.at # "kick", dev.at = "idle", ~kick
                 PROVE  vq.last_avail = drv.avail
    BY DEF NoLostKick
  <2>2. TypeOK
    BY <2>1 DEF Inv
  <2>3. Behind(vq.last_avail) = Behind(drv.avail)
    BY <2>1, <2>2, Facts DEF Inv, Kicks
  <2> QED
    BY <2>2, <2>3, Facts
<1> QED
  BY <1>1, Invariance, PTL

\* No interrupt is lost: virtq_push has made used->idx visible before
\* virtq_notify reads what the driver has asked for.
THEOREM InterruptsArrive == Spec => []NoLostInterrupt
<1>1. Inv => NoLostInterrupt
  BY DEF Inv, Calls, NoLostInterrupt
<1> QED
  BY <1>1, Invariance, PTL

\* The device never suspends the vring for a correct driver (-EOVERFLOW), and
\* never passes its index, wherever the indices wrap.
THEOREM NoOverflow == Spec => []FetchesInRange
<1>1. Inv => FetchesInRange
  <2>1. SUFFICES ASSUME Inv PROVE FetchesInRange
    OBVIOUS
  <2>2. TypeOK
    BY <2>1 DEF Inv
  <2>3. /\ vq.last_avail \in Index /\ vq.used \in Index
        /\ Behind(vq.last_avail) <= Behind(vq.used)
    BY <2>1, <2>2, Facts DEF Inv, Order
  <2>4. Diff(vq.last_avail, vq.used) = Behind(vq.used) - Behind(vq.last_avail)
    BY <2>2, <2>3, Facts
  <2> QED
    BY <2>1, <2>2, <2>4, Distances DEF FetchesInRange, Inv, Order, Behind
<1> QED
  BY <1>1, Invariance, PTL
=============================================================================
