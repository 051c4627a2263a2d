-------------------------- MODULE MessagingProofs --------------------------
(***************************************************************************)
(* Proofs about the two ways a message reaches a Lua program: the mailbox  *)
(* of a subscriber (Mailbox), for messages of any number of parts, a queue *)
(* of any size and any number of messages; and the packets of the UDP      *)
(* transport (UdpTransport), for any messages, sizes and uuids, any number *)
(* of arrivals and of restarts.                                            *)
(***************************************************************************)
EXTENDS Mailbox, UdpTransport, SequenceTheorems, FiniteSetTheorems,
        WellFoundedInduction, TLAPS

-----------------------------------------------------------------------------
(* Mailbox. *)
(***************************************************************************)
(* The strengthening: who is in a critical section holds the mutex, so one *)
(* copy is made at a time; what is copied so far is what is copied; and    *)
(* the numbers rise from the last message got, over the newest that the    *)
(* thread took, through the queue to the last one published.               *)
(***************************************************************************)
Exclusion ==
  /\ qpc # "wait" <=> mutex = "queue"
  /\ lpc \in {"copy", "clear", "unlock"} <=> mutex = "lua"

CopiedIn ==
  /\ qpc # "copy" => qk = 1
  /\ qpc # "wait" => msg \in Msg
  /\ qpc \in {"copy", "unlock"} => _new
  /\ qpc = "copy" => \A k \in Part : k < qk => _newMsg[k] = msg
  /\ qpc = "unlock" => _newMsg = Whole(msg)

CopiedOut ==
  /\ lpc # "copy" => lk = 1
  /\ lpc = "copy" => \A k \in Part : k < lk => returnMsg[k] = _newMsg[k]
  /\ lpc = "clear" => returnMsg = _newMsg

(* The newest message that left the queue. *)
Newest == IF qpc = "wait" THEN Number(_newMsg) ELSE msg

Held ==
  /\ got = Whole(Number(got))
  /\ qpc \in {"wait", "flag"} => _newMsg = Whole(Number(_newMsg))
  /\ qpc = "wait" /\ _new => Number(_newMsg) > Number(got)
  /\ qpc = "flag" /\ _new => Number(_newMsg) > Number(got)
  /\ qpc # "wait" => msg > Number(got)

Rising ==
  /\ Number(got) <= Newest
  /\ Newest <= published
  /\ \A i \in 1 .. Len(queue) : queue[i] > Newest /\ queue[i] <= published
  /\ \A i, j \in 1 .. Len(queue) : i < j => queue[i] < queue[j]

IInv == TypeOK /\ Exclusion /\ CheckKept /\ CopiedIn /\ CopiedOut /\ Held /\ Rising
-----------------------------------------------------------------------------
(* A full queue drops its oldest message: what is left keeps its order. *)
LEMMA Dropped ==
  ASSUME NEW q \in Seq(Msg), NEW n \in Nat \ {0},
         NEW r, r = IF Len(q) = n THEN Tail(q) ELSE q
  PROVE  /\ r \in Seq(Msg)
         /\ \E d \in {0, 1} : /\ Len(r) = Len(q) - d
                             /\ \A i \in 1 .. Len(r) : r[i] = q[i + d]
<1>1. CASE Len(q) = n
  <2>1. q # <<>>
    BY <1>1
  <2>2. Tail(q) \in Seq(Msg) /\ Len(Tail(q)) = Len(q) - 1
    BY <2>1, HeadTailProperties
  <2>3. \A i \in 1 .. Len(Tail(q)) : Tail(q)[i] = q[i + 1]
    BY <2>1, HeadTailProperties
  <2> QED
    BY <1>1, <2>2, <2>3
<1>2. CASE Len(q) # n
  BY <1>2
<1> QED
  BY <1>1, <1>2

LEMMA TypeInvariant == TypeOK /\ [Next]_vars => TypeOK'
<1> SUFFICES ASSUME TypeOK, [Next]_vars PROVE TypeOK'
  OBVIOUS
<1> USE MailboxAssumption DEF Msg, Part
<1>1. CASE Publish
  <2> DEFINE r == IF Len(queue) = QueueSize THEN Tail(queue) ELSE queue
  <2>1. r \in Seq(Msg)
    BY Dropped DEF TypeOK
  <2>2. published' \in 1 .. MaxMsg
    BY <1>1 DEF TypeOK, Publish
  <2>3. queue' = Append(r, published')
    BY <1>1 DEF Publish
  <2> HIDE DEF r
  <2>4. queue' \in Seq(Msg)
    BY <2>1, <2>2, <2>3
  <2> QED
    BY <1>1, <2>2, <2>4 DEF TypeOK, Publish, thread, lua
<1>2. CASE LockQueue
  BY <1>2 DEF TypeOK, LockQueue, thread, lua
<1>3. CASE SetFlag
  BY <1>3 DEF TypeOK, SetFlag, thread, lua
<1>4. CASE CopyIn
  BY <1>4 DEF TypeOK, CopyIn, thread, lua
<1>5. CASE UnlockQueue
  BY <1>5 DEF TypeOK, UnlockQueue, thread, lua
<1>6. CASE Check
  BY <1>6 DEF TypeOK, Check, thread, lua
<1>7. CASE LockLua
  BY <1>7 DEF TypeOK, LockLua, thread, lua
<1>8. CASE CopyOut
  BY <1>8 DEF TypeOK, CopyOut, thread, lua
<1>9. CASE ClearFlag
  BY <1>9 DEF TypeOK, ClearFlag, thread, lua
<1>10. CASE UnlockLua
  BY <1>10 DEF TypeOK, UnlockLua, thread, lua
<1>11. CASE UNCHANGED vars
  BY <1>11 DEF TypeOK, vars
<1> QED
  BY <1>1, <1>2, <1>3, <1>4, <1>5, <1>6, <1>7, <1>8, <1>9, <1>10, <1>11 DEF Next, Queue, Lua

(* The copies: no action but those of the copies and the flag touches them. *)
LEMMA Step == IInv /\ [Next]_vars => IInv'
<1> SUFFICES ASSUME IInv, [Next]_vars PROVE IInv'
  OBVIOUS
<1>t. TypeOK'
  BY TypeInvariant DEF IInv
<1> USE MailboxAssumption
<1>1. CASE Publish
  <2>1. Exclusion'
    BY <1>1, <1>t DEF IInv, Exclusion, TypeOK, Publish, thread, lua
  <2>2. CheckKept'
    BY <1>1, <1>t DEF IInv, CheckKept, TypeOK, Publish, thread, lua, Exclusion
  <2>3. CopiedIn'
    BY <1>1, <1>t DEF IInv, CopiedIn, TypeOK, Publish, thread, lua, Part, Whole, Msg, Exclusion
  <2>4. CopiedOut'
    BY <1>1, <1>t DEF IInv, CopiedOut, TypeOK, Publish, thread, lua, Part, Exclusion
  <2>5. Held'
    BY <1>1, <1>t DEF IInv, Held, TypeOK, Publish, thread, lua, CopiedIn, CopiedOut, Rising, Newest, Number, Whole, Part, Msg, Exclusion, CheckKept
  <2>6. Rising'
    <3> DEFINE r == IF Len(queue) = QueueSize THEN Tail(queue) ELSE queue
    <3>1. queue \in Seq(Msg) /\ published \in Nat /\ published' = published + 1
      BY <1>1 DEF IInv, TypeOK, Publish, Msg
    <3>2. r \in Seq(Msg)
      BY <3>1, Dropped
    <3>3. PICK d \in {0, 1} : /\ Len(r) = Len(queue) - d
                            /\ \A i \in 1 .. Len(r) : r[i] = queue[i + d]
      BY <3>1, Dropped
    <3>4. queue' = Append(r, published')
      BY <1>1 DEF Publish
    <3> HIDE DEF r
    <3>5. /\ Len(queue') = Len(r) + 1
          /\ \A i \in 1 .. Len(r) : queue'[i] = r[i]
          /\ queue'[Len(r) + 1] = published'
      BY <3>2, <3>4
    <3>6. Newest' = Newest /\ UNCHANGED got
      BY <1>1 DEF Publish, Newest, Number, thread, lua
    <3>7. Len(r) \in Nat /\ Len(queue) \in Nat
      BY <3>1, <3>2
    <3>8. \A i \in 1 .. Len(r) : i + d \in 1 .. Len(queue) /\ r[i] = queue[i + d]
      BY <3>3, <3>7
    <3>9. \A i \in 1 .. Len(queue) : queue[i] \in Nat
      BY <3>1 DEF Msg
    <3>10. Newest \in Nat
      BY DEF IInv, TypeOK, CopiedIn, Newest, Number, Msg, Part
    <3>11. ASSUME NEW i \in 1 .. Len(queue')
           PROVE  queue'[i] > Newest' /\ queue'[i] <= published'
      <4>1. CASE i \in 1 .. Len(r)
        <5>1. queue'[i] = queue[i + d] /\ i + d \in 1 .. Len(queue)
          BY <3>5, <3>8, <4>1
        <5>2. queue[i + d] > Newest /\ queue[i + d] <= published /\ queue[i + d] \in Nat
          BY <3>9, <5>1 DEF IInv, Rising
        <5> QED
          BY <3>1, <3>6, <5>1, <5>2
      <4>2. CASE i = Len(r) + 1
        BY <3>1, <3>5, <3>6, <3>10, <4>2 DEF IInv, Rising
      <4> QED
        BY <3>5, <3>7, <4>1, <4>2
    <3>12. ASSUME NEW i \in 1 .. Len(queue'), NEW j \in 1 .. Len(queue'), i < j
           PROVE  queue'[i] < queue'[j]
      <4>1. i \in 1 .. Len(r)
        BY <3>5, <3>7, <3>12
      <4>2. queue'[i] = queue[i + d] /\ i + d \in 1 .. Len(queue)
        BY <3>5, <3>8, <4>1
      <4>3. CASE j \in 1 .. Len(r)
        <5>1. queue'[j] = queue[j + d] /\ j + d \in 1 .. Len(queue) /\ i + d < j + d
          BY <3>5, <3>8, <3>12, <4>3
        <5>2. queue[i + d] < queue[j + d]
          BY <4>2, <5>1 DEF IInv, Rising
        <5> QED
          BY <4>2, <5>1, <5>2
      <4>4. CASE j = Len(r) + 1
        <5>1. queue[i + d] <= published /\ queue[i + d] \in Nat
          BY <3>9, <4>2 DEF IInv, Rising
        <5> QED
          BY <3>1, <3>5, <4>2, <4>4, <5>1
      <4> QED
        BY <3>5, <3>7, <4>3, <4>4
    <3> QED
      BY <3>1, <3>6, <3>10, <3>11, <3>12 DEF IInv, Rising
  <2> QED
    BY <1>t, <2>1, <2>2, <2>3, <2>4, <2>5, <2>6 DEF IInv
<1>2. CASE LockQueue
  <2>h. /\ queue \in Seq(Msg) /\ Len(queue) > 0
        /\ msg' = queue[1] /\ msg' \in Msg
        /\ Len(queue') = Len(queue) - 1
        /\ \A i \in 1 .. Len(queue') : queue'[i] = queue[i + 1]
    BY <1>2 DEF IInv, TypeOK, LockQueue
  <2>w. /\ qpc = "wait" /\ qpc' = "flag"
        /\ UNCHANGED <<published, _new, _newMsg, got>>
    BY <1>2 DEF LockQueue, lua
  <2>n. msg' > Newest /\ msg' <= published
    BY <2>h DEF IInv, Rising
  <2>g. Number(got) \in Nat /\ Number(_newMsg) \in Nat /\ msg' \in Nat
    BY <2>h DEF IInv, TypeOK, Number, Msg, Part
  <2>1. Exclusion'
    BY <1>2, <1>t DEF IInv, Exclusion, TypeOK, LockQueue, thread, lua
  <2>2. CheckKept'
    BY <1>2, <1>t DEF IInv, CheckKept, TypeOK, LockQueue, thread, lua, Exclusion
  <2>3. CopiedIn'
    BY <1>2, <1>t DEF IInv, CopiedIn, TypeOK, LockQueue, thread, lua, Part, Whole, Msg, Exclusion
  <2>4. CopiedOut'
    BY <1>2, <1>t DEF IInv, CopiedOut, TypeOK, LockQueue, thread, lua, Part, Exclusion
  <2>5. Held'
    <3>1. msg' > Number(got)'
      BY <2>w, <2>n, <2>g DEF IInv, Rising, Newest, Number
    <3> QED
      BY <2>w, <2>g, <3>1 DEF IInv, Held, Newest, Number
  <2>6. Rising'
    <3>1. Newest' = msg' /\ Newest = Number(_newMsg)
      BY <2>w DEF Newest
    <3>2. \A i \in 1 .. Len(queue') : /\ i + 1 \in 1 .. Len(queue)
                                    /\ queue'[i] = queue[i + 1]
      BY <2>h
    <3>3. \A i \in 1 .. Len(queue) : queue[i] \in Nat
      BY <2>h DEF Msg
    <3>4. \A i \in 1 .. Len(queue') : queue'[i] > msg' /\ queue'[i] <= published
      BY <2>h, <2>g, <3>2, <3>3 DEF IInv, Rising
    <3>5. ASSUME NEW i \in 1 .. Len(queue'), NEW j \in 1 .. Len(queue'), i < j
          PROVE  queue'[i] < queue'[j]
      <4>1. i + 1 < j + 1 /\ i + 1 \in 1 .. Len(queue) /\ j + 1 \in 1 .. Len(queue)
        BY <3>2, <3>5
      <4>2. queue[i + 1] < queue[j + 1]
        BY <4>1 DEF IInv, Rising
      <4> QED
        BY <3>2, <4>2
    <3>6. Number(got') <= msg'
      BY <2>w, <2>n, <2>g, <3>1 DEF IInv, Rising
    <3> QED
      BY <2>w, <2>n, <3>1, <3>4, <3>5, <3>6 DEF Rising, Number
  <2> QED
    BY <1>t, <2>1, <2>2, <2>3, <2>4, <2>5, <2>6 DEF IInv
<1>3. CASE SetFlag
  <2>1. Exclusion'
    BY <1>3, <1>t DEF IInv, Exclusion, TypeOK, SetFlag, thread, lua
  <2>2. CheckKept'
    BY <1>3, <1>t DEF IInv, CheckKept, TypeOK, SetFlag, thread, lua, Exclusion
  <2>3. CopiedIn'
    BY <1>3, <1>t DEF IInv, CopiedIn, TypeOK, SetFlag, thread, lua, Part, Whole, Msg, Exclusion
  <2>4. CopiedOut'
    BY <1>3, <1>t DEF IInv, CopiedOut, TypeOK, SetFlag, thread, lua, Part, Exclusion
  <2>5. Held'
    BY <1>3, <1>t DEF IInv, Held, TypeOK, SetFlag, thread, lua, CopiedIn, CopiedOut, Rising, Newest, Number, Whole, Part, Msg, Exclusion, CheckKept
  <2>6. Rising'
    BY <1>3, <1>t DEF IInv, Rising, TypeOK, SetFlag, thread, lua, CopiedIn, Held, Newest, Number, Whole, Msg, Part, Exclusion
  <2> QED
    BY <1>t, <2>1, <2>2, <2>3, <2>4, <2>5, <2>6 DEF IInv
<1>4. CASE CopyIn
  <2>1. Exclusion'
    BY <1>4, <1>t DEF IInv, Exclusion, TypeOK, CopyIn, thread, lua
  <2>2. CheckKept'
    BY <1>4, <1>t DEF IInv, CheckKept, TypeOK, CopyIn, thread, lua, Exclusion
  <2>c. /\ qpc = "copy" /\ _new /\ UNCHANGED <<_new, msg>>
        /\ qk \in Part /\ msg \in Msg
        /\ _newMsg' \in [Part -> Msg \cup {0}]
        /\ \A k \in Part : k <= qk => _newMsg'[k] = msg
    BY <1>4, <1>t DEF IInv, CopiedIn, TypeOK, CopyIn, Part
  <2>3. CopiedIn'
    <3>1. CASE qk < Parts
      <4>1. qk' = qk + 1 /\ qpc' = "copy"
        BY <1>4, <3>1 DEF CopyIn
      <4>2. \A k \in Part : k < qk + 1 => k <= qk
        BY <2>c DEF Part
      <4> QED
        BY <2>c, <4>1, <4>2 DEF CopiedIn
    <3>2. CASE ~(qk < Parts)
      <4>1. qk' = 1 /\ qpc' = "unlock"
        BY <1>4, <3>2 DEF CopyIn
      <4>2. \A k \in Part : _newMsg'[k] = msg
        BY <2>c, <3>2 DEF Part
      <4>3. _newMsg' = Whole(msg)
        BY <2>c, <4>2 DEF Whole
      <4> QED
        BY <2>c, <4>1, <4>3 DEF CopiedIn, Whole
    <3> QED
      BY <3>1, <3>2
  <2>4. CopiedOut'
    BY <1>4, <1>t DEF IInv, CopiedOut, TypeOK, CopyIn, thread, lua, Part, Exclusion
  <2>5. Held'
    BY <1>4, <1>t DEF IInv, Held, TypeOK, CopyIn, thread, lua, CopiedIn, CopiedOut, Rising, Newest, Number, Whole, Part, Msg, Exclusion, CheckKept
  <2>6. Rising'
    BY <1>4, <1>t DEF IInv, Rising, TypeOK, CopyIn, thread, lua, CopiedIn, Held, Newest, Number, Whole, Msg, Part, Exclusion
  <2> QED
    BY <1>t, <2>1, <2>2, <2>3, <2>4, <2>5, <2>6 DEF IInv
<1>5. CASE UnlockQueue
  <2>1. Exclusion'
    BY <1>5, <1>t DEF IInv, Exclusion, TypeOK, UnlockQueue, thread, lua
  <2>2. CheckKept'
    BY <1>5, <1>t DEF IInv, CheckKept, TypeOK, UnlockQueue, thread, lua, Exclusion
  <2>3. CopiedIn'
    BY <1>5, <1>t DEF IInv, CopiedIn, TypeOK, UnlockQueue, thread, lua, Part, Whole, Msg, Exclusion
  <2>4. CopiedOut'
    BY <1>5, <1>t DEF IInv, CopiedOut, TypeOK, UnlockQueue, thread, lua, Part, Exclusion
  <2>5. Held'
    BY <1>5, <1>t DEF IInv, Held, TypeOK, UnlockQueue, thread, lua, CopiedIn, CopiedOut, Rising, Newest, Number, Whole, Part, Msg, Exclusion, CheckKept
  <2>6. Rising'
    BY <1>5, <1>t DEF IInv, Rising, TypeOK, UnlockQueue, thread, lua, CopiedIn, Held, Newest, Number, Whole, Msg, Part, Exclusion
  <2> QED
    BY <1>t, <2>1, <2>2, <2>3, <2>4, <2>5, <2>6 DEF IInv
<1>6. CASE Check
  <2>1. Exclusion'
    BY <1>6, <1>t DEF IInv, Exclusion, TypeOK, Check, thread, lua
  <2>2. CheckKept'
    BY <1>6, <1>t DEF IInv, CheckKept, TypeOK, Check, thread, lua, Exclusion
  <2>3. CopiedIn'
    BY <1>6, <1>t DEF IInv, CopiedIn, TypeOK, Check, thread, lua, Part, Whole, Msg, Exclusion
  <2>4. CopiedOut'
    BY <1>6, <1>t DEF IInv, CopiedOut, TypeOK, Check, thread, lua, Part, Exclusion
  <2>5. Held'
    BY <1>6, <1>t DEF IInv, Held, TypeOK, Check, thread, lua, CopiedIn, CopiedOut, Rising, Newest, Number, Whole, Part, Msg, Exclusion, CheckKept
  <2>6. Rising'
    BY <1>6, <1>t DEF IInv, Rising, TypeOK, Check, thread, lua, CopiedIn, Held, Newest, Number, Whole, Msg, Part, Exclusion
  <2> QED
    BY <1>t, <2>1, <2>2, <2>3, <2>4, <2>5, <2>6 DEF IInv
<1>7. CASE LockLua
  <2>1. Exclusion'
    BY <1>7, <1>t DEF IInv, Exclusion, TypeOK, LockLua, thread, lua
  <2>2. CheckKept'
    BY <1>7, <1>t DEF IInv, CheckKept, TypeOK, LockLua, thread, lua, Exclusion
  <2>3. CopiedIn'
    BY <1>7, <1>t DEF IInv, CopiedIn, TypeOK, LockLua, thread, lua, Part, Whole, Msg, Exclusion
  <2>4. CopiedOut'
    BY <1>7, <1>t DEF IInv, CopiedOut, TypeOK, LockLua, thread, lua, Part, Exclusion
  <2>5. Held'
    BY <1>7, <1>t DEF IInv, Held, TypeOK, LockLua, thread, lua, CopiedIn, CopiedOut, Rising, Newest, Number, Whole, Part, Msg, Exclusion, CheckKept
  <2>6. Rising'
    BY <1>7, <1>t DEF IInv, Rising, TypeOK, LockLua, thread, lua, CopiedIn, Held, Newest, Number, Whole, Msg, Part, Exclusion
  <2> QED
    BY <1>t, <2>1, <2>2, <2>3, <2>4, <2>5, <2>6 DEF IInv
<1>8. CASE CopyOut
  <2>1. Exclusion'
    BY <1>8, <1>t DEF IInv, Exclusion, TypeOK, CopyOut, thread, lua
  <2>2. CheckKept'
    BY <1>8, <1>t DEF IInv, CheckKept, TypeOK, CopyOut, thread, lua, Exclusion
  <2>3. CopiedIn'
    BY <1>8, <1>t DEF IInv, CopiedIn, TypeOK, CopyOut, thread, lua, Part, Whole, Msg, Exclusion
  <2>4. CopiedOut'
    BY <1>8, <1>t DEF IInv, CopiedOut, TypeOK, CopyOut, thread, lua, Part, Exclusion
  <2>5. Held'
    BY <1>8, <1>t DEF IInv, Held, TypeOK, CopyOut, thread, lua, CopiedIn, CopiedOut, Rising, Newest, Number, Whole, Part, Msg, Exclusion, CheckKept
  <2>6. Rising'
    BY <1>8, <1>t DEF IInv, Rising, TypeOK, CopyOut, thread, lua, CopiedIn, Held, Newest, Number, Whole, Msg, Part, Exclusion
  <2> QED
    BY <1>t, <2>1, <2>2, <2>3, <2>4, <2>5, <2>6 DEF IInv
<1>9. CASE ClearFlag
  <2>1. Exclusion'
    BY <1>9, <1>t DEF IInv, Exclusion, TypeOK, ClearFlag, thread, lua
  <2>2. CheckKept'
    BY <1>9, <1>t DEF IInv, CheckKept, TypeOK, ClearFlag, thread, lua, Exclusion
  <2>3. CopiedIn'
    BY <1>9, <1>t DEF IInv, CopiedIn, TypeOK, ClearFlag, thread, lua, Part, Whole, Msg, Exclusion
  <2>4. CopiedOut'
    BY <1>9, <1>t DEF IInv, CopiedOut, TypeOK, ClearFlag, thread, lua, Part, Exclusion
  <2>5. Held'
    BY <1>9, <1>t DEF IInv, Held, TypeOK, ClearFlag, thread, lua, CopiedIn, CopiedOut, Rising, Newest, Number, Whole, Part, Msg, Exclusion, CheckKept
  <2>6. Rising'
    <3>1. qpc = "wait" /\ got' = _newMsg
      BY <1>9 DEF IInv, TypeOK, ClearFlag, Exclusion, CopiedOut
    <3>2. UNCHANGED <<published, queue, _newMsg, qpc, msg>>
      BY <1>9 DEF ClearFlag, thread
    <3>3. Number(got') = Newest /\ Newest' = Newest /\ Newest \in Nat
      BY <3>1, <3>2 DEF Newest, Number, IInv, TypeOK, Msg, Part
    <3> QED
      BY <3>2, <3>3 DEF IInv, Rising, Number
  <2> QED
    BY <1>t, <2>1, <2>2, <2>3, <2>4, <2>5, <2>6 DEF IInv
<1>10. CASE UnlockLua
  <2>1. Exclusion'
    BY <1>10, <1>t DEF IInv, Exclusion, TypeOK, UnlockLua, thread, lua
  <2>2. CheckKept'
    BY <1>10, <1>t DEF IInv, CheckKept, TypeOK, UnlockLua, thread, lua, Exclusion
  <2>3. CopiedIn'
    BY <1>10, <1>t DEF IInv, CopiedIn, TypeOK, UnlockLua, thread, lua, Part, Whole, Msg, Exclusion
  <2>4. CopiedOut'
    BY <1>10, <1>t DEF IInv, CopiedOut, TypeOK, UnlockLua, thread, lua, Part, Exclusion
  <2>5. Held'
    BY <1>10, <1>t DEF IInv, Held, TypeOK, UnlockLua, thread, lua, CopiedIn, CopiedOut, Rising, Newest, Number, Whole, Part, Msg, Exclusion, CheckKept
  <2>6. Rising'
    BY <1>10, <1>t DEF IInv, Rising, TypeOK, UnlockLua, thread, lua, CopiedIn, Held, Newest, Number, Whole, Msg, Part, Exclusion
  <2> QED
    BY <1>t, <2>1, <2>2, <2>3, <2>4, <2>5, <2>6 DEF IInv
<1>11. CASE UNCHANGED vars
  BY <1>11 DEF IInv, TypeOK, Exclusion, CheckKept, CopiedIn, CopiedOut, Held, Rising, Newest, vars
<1> QED
  BY <1>1, <1>2, <1>3, <1>4, <1>5, <1>6, <1>7, <1>8, <1>9, <1>10, <1>11 DEF Next, Queue, Lua

LEMMA Start == Init => IInv
<1> SUFFICES ASSUME Init PROVE IInv
  OBVIOUS
<1>1. TypeOK
  <2>1. NoCopy \in [Part -> Msg \cup {0}]
    BY DEF NoCopy
  <2>2. <<>> \in Seq(Msg) /\ 1 \in Part /\ 0 \in 0 .. MaxMsg
    BY MailboxAssumption DEF Part
  <2> QED
    BY <2>1, <2>2 DEF Init, TypeOK
<1>2. Exclusion /\ CheckKept /\ CopiedIn /\ CopiedOut
  BY DEF Init, Exclusion, CheckKept, CopiedIn, CopiedOut
<1>3. Number(NoCopy) = 0 /\ NoCopy = Whole(0)
  BY MailboxAssumption DEF Number, NoCopy, Whole, Part
<1>4. Held
  BY <1>3 DEF Init, Held, Number
<1>5. Rising
  BY <1>3 DEF Init, Rising, Newest, Number
<1> QED
  BY <1>1, <1>2, <1>4, <1>5 DEF IInv

THEOREM Invariance == Spec => []IInv
<1>1. Init => IInv
  BY Start
<1>2. IInv /\ [Next]_vars => IInv'
  BY Step
<1> QED
  BY <1>1, <1>2, PTL DEF Spec

(* Every variable of the mailbox keeps its type (lua_rossub.cpp:21-50). *)
THEOREM TypeCorrect == Spec => []TypeOK
<1>1. IInv => TypeOK
  BY DEF IInv
<1> QED
  BY <1>1, Invariance, PTL

(***************************************************************************)
(* What checkMsg found without the lock is still there when getMsg takes   *)
(* it (lua_rossub.cpp:21-25).                                              *)
(***************************************************************************)
THEOREM CheckKeptCorrect == Spec => []CheckKept
<1>1. IInv => CheckKept
  BY DEF IInv
<1> QED
  BY <1>1, Invariance, PTL

-----------------------------------------------------------------------------
(* What getMsg takes: a whole message, the one of the register.            *)
LEMMA Taking ==
  ASSUME IInv, ClearFlag
  PROVE  /\ qpc = "wait" /\ _new
         /\ got' = _newMsg
         /\ _newMsg = Whole(Number(_newMsg))
         /\ Number(_newMsg) \in Msg /\ Number(_newMsg) > Number(got)
<1>1. qpc = "wait" /\ got' = _newMsg /\ _new
  BY DEF IInv, TypeOK, ClearFlag, Exclusion, CheckKept, CopiedOut
<1>2. /\ _newMsg = Whole(Number(_newMsg)) /\ Number(_newMsg) > Number(got)
      /\ Number(_newMsg) \in Msg \cup {0} /\ Number(got) \in Msg \cup {0}
  BY <1>1, MailboxAssumption DEF IInv, TypeOK, Held, Number, Part
<1> QED
  BY <1>1, <1>2, MailboxAssumption DEF Msg

LEMMA GotOnlyTaken ==
  ASSUME [Next]_vars, got' # got
  PROVE  ClearFlag
BY DEF Next, Queue, Lua, vars, Publish, LockQueue, SetFlag, CopyIn, UnlockQueue, Check,
       LockLua, CopyOut, UnlockLua, thread, lua

(***************************************************************************)
(* The messages got are whole and each is newer than the one before, for   *)
(* every size of the messages and of the queue (lua_rossub.cpp:22-35).     *)
(***************************************************************************)
THEOREM NewerCorrect == Spec => Newer
<1>1. IInv /\ [Next]_vars =>
        [got' # got => /\ got' = Whole(Number(got'))
                       /\ Number(got') > Number(got)]_vars
  BY Taking, GotOnlyTaken DEF Number
<1> QED
  BY <1>1, Invariance, PTL DEF Spec, Newer

(***************************************************************************)
(* The last message published stays the newest one on its way until it is  *)
(* got, and the flag is down only after that.                              *)
(***************************************************************************)
NewestKept ==
  /\ queue # <<>> => queue[Len(queue)] = published
  /\ queue = <<>> => Newest = published
  /\ qpc = "wait" => _new \/ Number(got) = Number(_newMsg)

LEMMA NewestKeptStep ==
  ASSUME IInv, NewestKept, [Next]_vars
  PROVE  NewestKept'
<1>1. /\ queue \in Seq(Msg) /\ qpc \in {"wait", "flag", "copy", "unlock"}
      /\ qpc = "unlock" => _new /\ _newMsg = Whole(msg)
      /\ Whole(msg)[1] = msg
  BY MailboxAssumption DEF IInv, TypeOK, CopiedIn, Whole, Part
<1>2. CASE Publish
  <2> DEFINE r == IF Len(queue) = QueueSize THEN Tail(queue) ELSE queue
  <2>1. queue' = Append(r, published') /\ UNCHANGED <<_new, _newMsg, qpc, got>>
    BY <1>2 DEF Publish, thread, lua
  <2>2. r \in Seq(Msg)
    BY <1>1, Dropped, MailboxAssumption
  <2> HIDE DEF r
  <2>3. queue' # <<>> /\ queue'[Len(queue')] = published'
    BY <2>1, <2>2
  <2> QED
    BY <2>1, <2>3 DEF NewestKept, Number
<1>3. CASE LockQueue
  <2>1. /\ queue # <<>> /\ msg' = queue[1] /\ qpc' = "flag" /\ queue' = Tail(queue)
        /\ UNCHANGED published
    BY <1>1, <1>3 DEF LockQueue
  <2>2. CASE Len(queue) = 1
    <3>1. queue' = <<>> /\ msg' = published
      BY <1>1, <2>1, <2>2 DEF NewestKept
    <3> QED
      BY <2>1, <3>1 DEF NewestKept, Newest
  <2>3. CASE Len(queue) # 1
    <3>1. /\ Len(queue') = Len(queue) - 1 /\ queue' # <<>>
          /\ queue'[Len(queue')] = queue[Len(queue)]
      <4>1. Len(queue) \in Nat /\ Len(queue) >= 2
        <5>1. Len(queue) \in Nat /\ Len(queue) # 0
          BY <1>1, <2>1, EmptySeq
        <5>2. \A n \in Nat : n # 0 /\ n # 1 => n >= 2
          OBVIOUS
        <5> QED
          BY <5>1, <5>2, <2>3
      <4>2. queue' \in Seq(Msg) /\ Len(queue') = Len(queue) - 1
            /\ \A k \in 1 .. Len(queue) - 1 : queue'[k] = queue[k + 1]
        BY <1>1, <2>1, HeadTailProperties
      <4>3. queue' # <<>> /\ Len(queue) - 1 \in 1 .. Len(queue) - 1
            /\ (Len(queue) - 1) + 1 = Len(queue)
        BY <4>1, <4>2
      <4> QED
        BY <4>2, <4>3
    <3> QED
      BY <2>1, <3>1 DEF NewestKept
  <2> QED
    BY <2>2, <2>3
<1>4. CASE SetFlag
  BY <1>4 DEF SetFlag, lua, NewestKept, Newest
<1>5. CASE CopyIn
  BY <1>5 DEF CopyIn, lua, NewestKept, Newest
<1>6. CASE UnlockQueue
  <2>1. Number(_newMsg) = msg /\ _new
    BY <1>1, <1>6 DEF UnlockQueue, Number
  <2> QED
    BY <1>6, <2>1 DEF UnlockQueue, lua, NewestKept, Newest, Number
<1>7. CASE ClearFlag
  <2>1. qpc = "wait" /\ got' = _newMsg /\ UNCHANGED <<queue, published, qpc, _newMsg>>
    BY <1>7, Taking DEF ClearFlag, thread
  <2> QED
    BY <2>1 DEF NewestKept, Newest, Number
<1>8. CASE Check \/ LockLua \/ CopyOut \/ UnlockLua
  BY <1>8 DEF Check, LockLua, CopyOut, UnlockLua, thread, NewestKept, Newest, Number
<1>9. CASE UNCHANGED vars
  BY <1>9 DEF vars, NewestKept, Newest, Number
<1> QED
  BY <1>2, <1>3, <1>4, <1>5, <1>6, <1>7, <1>8, <1>9 DEF Next, Queue, Lua

(***************************************************************************)
(* The last message published is never lost on its way from the topic to   *)
(* the program, for every size of the messages and of the queue: what is   *)
(* left for LastGot is that both threads go on (lua_rossub.cpp:12, 21-35). *)
(***************************************************************************)
THEOREM LastOnItsWayCorrect == Spec => []LastOnItsWay
<1>1. Init => NewestKept
  <2>1. Number(NoCopy) = 0
    BY MailboxAssumption DEF Number, NoCopy, Part
  <2> QED
    BY <2>1 DEF Init, NewestKept, Newest
<1>2. IInv /\ NewestKept /\ [Next]_vars => NewestKept'
  BY NewestKeptStep
<1>3. IInv /\ NewestKept => LastOnItsWay
  <2> SUFFICES ASSUME IInv, NewestKept PROVE LastOnItsWay
    OBVIOUS
  <2>1. CASE queue # <<>>
    <3>1. Len(queue) \in DOMAIN queue
      BY <2>1 DEF IInv, TypeOK
    <3> QED
      BY <2>1, <3>1 DEF NewestKept, LastOnItsWay
  <2>2. CASE queue = <<>> /\ qpc # "wait"
    BY <2>2 DEF NewestKept, Newest, LastOnItsWay
  <2>3. CASE queue = <<>> /\ qpc = "wait"
    <3>1. /\ Number(_newMsg) = published
          /\ _newMsg = Whole(published) /\ got = Whole(Number(got))
          /\ _new \/ Number(got) = published
      BY <2>3 DEF NewestKept, Newest, IInv, Held
    <3> QED
      BY <3>1 DEF LastOnItsWay
  <2> QED
    BY <2>1, <2>2, <2>3
<1> QED
  BY <1>1, <1>2, <1>3, Invariance, PTL DEF Spec

(* A message is not the empty register. *)
LEMMA NotEmpty ==
  ASSUME NEW m \in Msg
  PROVE  Whole(m) # NoCopy /\ Whole(m) \in {Whole(k) : k \in Msg}
<1>1. Whole(m)[1] = m /\ NoCopy[1] = 0 /\ m # 0
  BY MailboxAssumption DEF Whole, NoCopy, Part, Msg
<1> QED
  BY <1>1

LEMMA StepIsRegisterStep ==
  ASSUME IInv, IInv', [Next]_vars
  PROVE  \/ \E v \in {Whole(k) : k \in Msg} : Slot' = v /\ got' = got
         \/ Slot # NoCopy /\ got' = Slot /\ Slot' = NoCopy
         \/ Slot' = Slot /\ got' = got
<1>1. CASE SetFlag
  <2>1. msg \in Msg /\ msg' = msg /\ qpc' = "copy" /\ got' = got
    BY <1>1 DEF SetFlag, lua, IInv, CopiedIn
  <2>2. Slot' = Whole(msg)
    BY <2>1 DEF Slot, Whole
  <2> QED
    BY <2>1, <2>2, NotEmpty
<1>2. CASE ClearFlag
  <2>1. Slot = _newMsg /\ Slot # NoCopy
    BY <1>2, Taking, NotEmpty DEF Slot
  <2>2. qpc' = "wait" /\ ~_new'
    BY <1>2, Taking DEF ClearFlag, thread
  <2>3. Slot' = NoCopy
    BY <2>2 DEF Slot, NoCopy
  <2> QED
    BY <1>2, Taking, <2>1, <2>3
<1>3. CASE LockQueue
  BY <1>3 DEF LockQueue, Slot, lua, NoCopy
<1>4. CASE CopyIn
  BY <1>4 DEF CopyIn, Slot, lua, Whole
<1>5. CASE UnlockQueue
  BY <1>5 DEF UnlockQueue, Slot, lua, IInv, CopiedIn
<1>6. CASE Publish
  BY <1>6 DEF Publish, thread, lua, Slot, NoCopy, Whole
<1>7. CASE Check \/ LockLua \/ CopyOut \/ UnlockLua
  BY <1>7 DEF Check, LockLua, CopyOut, UnlockLua, thread, Slot, NoCopy, Whole
<1>8. CASE UNCHANGED vars
  BY <1>8 DEF vars, Slot, NoCopy, Whole
<1> QED
  BY <1>1, <1>2, <1>3, <1>4, <1>5, <1>6, <1>7, <1>8 DEF Next, Queue, Lua

(***************************************************************************)
(* The mailbox implements the register of LatestValue: a message is put    *)
(* when OnRosMsg sets the flag and taken when getMsg clears it, whatever   *)
(* the two threads do in between (lua_rossub.cpp:21-35).                   *)
(***************************************************************************)
THEOREM Refinement == Spec => IsRegister
<1>1. Init => Register!Init
  BY DEF Init, Register!Init, Slot
<1>2. IInv /\ IInv' /\ [Next]_vars =>
        [Register!Next]_<<Slot, got>>
  BY StepIsRegisterStep DEF Register!Next, Register!Put, Register!Take
<1> QED
  BY <1>1, <1>2, Invariance, PTL DEF Spec, IsRegister, Register!Spec

-----------------------------------------------------------------------------
(* UdpTransport.  Induction, as a fact about sets: the recursion over the *)
(* packets of a message needs it.                                         *)

LEMMA LeastNumber ==
  ASSUME NEW S \in SUBSET Nat, S # {}
  PROVE  \E n \in S : \A k \in S : n <= k
<1> DEFINE R == OpToRel(<, Nat)
<1>1. IsWellFoundedOn(R, Nat)
  BY NatLessThanWellFounded
<1>2. R = {ss \in Nat \X Nat : ss[1] < ss[2]}
  BY DEF OpToRel
<1> HIDE DEF R
<1>3. \A x, y \in Nat : y < x => <<y, x>> \in R
  BY <1>2
<1>4. PICK x \in S : \A y \in S : <<y, x>> \notin R
  BY <1>1, WFMin
<1>5. \A y \in S : y \in Nat
  OBVIOUS
<1>6. \A y \in S : ~(y < x)
  BY <1>3, <1>4, <1>5, Zenon
<1> QED
  BY <1>5, <1>6

LEMMA InductionOverSet ==
  ASSUME NEW S, 0 \in S, \A n \in Nat : n \in S => n + 1 \in S
  PROVE  \A n \in Nat : n \in S
<1> SUFFICES ASSUME Nat \ S # {} PROVE FALSE
  OBVIOUS
<1>1. PICK n \in Nat \ S : \A k \in Nat \ S : n <= k
  BY LeastNumber
<1>2. n - 1 \in Nat /\ n - 1 \notin S
  BY <1>1
<1> QED
  BY <1>1, <1>2

-----------------------------------------------------------------------------
(* Reassembly. *)

(***************************************************************************)
(* The recursion over the packets has a solution: what is put together     *)
(* from the first i orders.                                                *)
(***************************************************************************)
Chunk(buf, i) == IF i \in DOMAIN buf THEN buf[i] ELSE <<>>

Joins(f, buf, n) ==
  f = [i \in 0 .. n |-> IF i = 0 THEN <<>> ELSE f[i - 1] \o Chunk(buf, i - 1)]

LEMMA JoinExists ==
  ASSUME NEW buf
  PROVE  \A n \in Nat : \E f : Joins(f, buf, n)
<1> DEFINE S == {n \in Nat : \E f : Joins(f, buf, n)}
<1>1. 0 \in S
  <2> DEFINE f == [i \in 0 .. 0 |-> <<>>]
  <2>1. Joins(f, buf, 0)
    BY DEF Joins
  <2> QED
    BY <2>1
<1>2. ASSUME NEW n \in Nat, n \in S PROVE n + 1 \in S
  <2>1. PICK f : Joins(f, buf, n)
    BY <1>2
  <2> DEFINE g == [i \in 0 .. n + 1 |-> IF i = n + 1 THEN f[n] \o Chunk(buf, n) ELSE f[i]]
  <2>2. \A i \in 0 .. n : g[i] = f[i]
    OBVIOUS
  <2>3. \A i \in 0 .. n : f[i] = IF i = 0 THEN <<>> ELSE f[i - 1] \o Chunk(buf, i - 1)
    BY <2>1 DEF Joins
  <2>4. \A i \in 0 .. n + 1 : g[i] = IF i = 0 THEN <<>> ELSE g[i - 1] \o Chunk(buf, i - 1)
    <3> SUFFICES ASSUME NEW i \in 0 .. n + 1
                 PROVE  g[i] = IF i = 0 THEN <<>> ELSE g[i - 1] \o Chunk(buf, i - 1)
      OBVIOUS
    <3>1. CASE i = n + 1
      <4>1. g[i] = f[n] \o Chunk(buf, n) /\ i # 0 /\ i - 1 = n /\ g[i - 1] = f[n]
        BY <3>1, <2>2
      <4> QED
        BY <4>1
    <3>2. CASE i \in 1 .. n
      <4>1. i \in 0 .. n /\ i - 1 \in 0 .. n /\ i # 0
        BY <3>2
      <4>2. g[i] = f[i] /\ g[i - 1] = f[i - 1]
        BY <4>1, <2>2
      <4> QED
        BY <4>1, <4>2, <2>3
    <3>3. CASE i = 0
      <4>1. g[i] = f[i] /\ i \in 0 .. n
        BY <3>3, <2>2
      <4> QED
        BY <4>1, <3>3, <2>3
    <3> QED
      BY <3>1, <3>2, <3>3
  <2>5. Joins(g, buf, n + 1)
    <3> HIDE DEF g
    <3>1. g = [i \in 0 .. n + 1 |-> g[i]]
      BY DEF g
    <3> QED
      BY <3>1, <2>4 DEF Joins
  <2> QED
    BY <2>5
<1> HIDE DEF S
<1>3. \A n \in Nat : n \in S
  BY <1>1, <1>2, InductionOverSet
<1> QED
  BY <1>3 DEF S

LEMMA AssembleDef ==
  ASSUME NEW buf, NEW n \in Nat
  PROVE  \E f : Joins(f, buf, n) /\ Assemble(buf, n) = f[n]
<1> DEFINE f == CHOOSE g : Joins(g, buf, n)
<1>1. Joins(f, buf, n)
  BY JoinExists
<1>2. Assemble(buf, n) = f[n]
  BY DEF Assemble, Joins, Chunk
<1> QED
  BY <1>1, <1>2

(* A prefix, and the part of a sequence behind it. *)
LEMMA PrefixExtended ==
  ASSUME NEW T, NEW s \in Seq(T), NEW a \in Nat, NEW b \in Nat, a <= b, b <= Len(s)
  PROVE  SubSeq(s, 1, a) \o SubSeq(s, a + 1, b) = SubSeq(s, 1, b)
<1>1. /\ Len(SubSeq(s, 1, a)) = a /\ Len(SubSeq(s, a + 1, b)) = b - a
      /\ Len(SubSeq(s, 1, b)) = b
  OBVIOUS
<1> DEFINE l == SubSeq(s, 1, a) \o SubSeq(s, a + 1, b)
<1>2. l \in Seq(T) /\ Len(l) = b /\ SubSeq(s, 1, b) \in Seq(T)
  BY <1>1
<1>3. \A k \in 1 .. b : l[k] = s[k] /\ SubSeq(s, 1, b)[k] = s[k]
  BY <1>1
<1> HIDE DEF l
<1>4. l = SubSeq(s, 1, b)
  BY <1>1, <1>2, <1>3
<1> QED
  BY <1>4 DEF l

LEMMA Constants ==
  /\ MaxBody \in Nat /\ MaxBody > 0
  /\ ByteRange \in Nat /\ ByteRange > 0
  /\ maxQueueSize \in Nat /\ MaxArrivals \in Nat /\ MaxRestarts \in Nat
  /\ \A m \in Message : Size[m] \in Nat /\ Size[m] > 0
  /\ Len(Uuid) \in Nat /\ \A k \in 1 .. Len(Uuid) : Uuid[k] \in Ids
  BY UdpAssumption DEF Ids

LEMMA ByteType ==
  ASSUME NEW n \in Int
  PROVE  Byte(n) \in 0 .. ByteRange - 1 /\ (n \in 0 .. ByteRange - 1 => Byte(n) = n)
  BY Constants DEF Byte

(***************************************************************************)
(* The sizes send_all gets right: the number of packets is exact, all      *)
(* packets are full but the last, which has the rest.                      *)
(***************************************************************************)
LEMMA PacketCount ==
  ASSUME NEW m \in Message, SizeOK(m)
  PROVE  \E q \in Nat : \E r \in 1 .. MaxBody - 1 :
           /\ Size[m] = q * MaxBody + r
           /\ NumPackets(Size[m]) = q + 1
           /\ q + 1 < ByteRange
           /\ \A i \in 0 .. q : PacketLen(i, Size[m]) = IF i = q THEN r ELSE MaxBody
<1> DEFINE q == Size[m] \div MaxBody
           r == Size[m] % MaxBody
<1>1. q \in Nat /\ r \in 1 .. MaxBody - 1 /\ Size[m] = q * MaxBody + r /\ q + 1 < ByteRange
  <2>1. Size[m] \in Nat /\ MaxBody \in Nat /\ MaxBody > 0
    BY Constants
  <2>2. q \in Int /\ q >= 0
    BY <2>1
  <2>3. r \in 0 .. MaxBody - 1
    BY <2>1
  <2>4. Size[m] = q * MaxBody + r
    BY <2>1
  <2>5. r # 0 /\ q + 1 < ByteRange
    BY DEF SizeOK
  <2> HIDE DEF q, r
  <2> QED
    BY <2>2, <2>3, <2>4, <2>5
<1>2. Byte(q) = q /\ Byte(q + 1) = q + 1
  <2> HIDE DEF q
  <2>1. q \in 0 .. ByteRange - 1 /\ q + 1 \in 0 .. ByteRange - 1
    BY <1>1, Constants
  <2> QED
    BY <2>1, ByteType
<1>3. NumPackets(Size[m]) = q + 1
  BY <1>1, <1>2 DEF NumPackets
<1>4. \A i \in 0 .. q : PacketLen(i, Size[m]) = IF i = q THEN r ELSE MaxBody
  BY <1>1, <1>3 DEF PacketLen
<1> QED
  BY <1>1, <1>3, <1>4

(* What a packet carries. *)
Piece(m, i) == SubSeq(Data(m), i * MaxBody + 1, i * MaxBody + PacketLen(i, Size[m]))

Pieces(m) == [i \in 0 .. NumPackets(Size[m]) - 1 |-> Piece(m, i)]

LEMMA DataSeq ==
  ASSUME NEW m \in Message
  PROVE  /\ Data(m) \in Seq(Message \X Nat) /\ Len(Data(m)) = Size[m]
         /\ SubSeq(Data(m), 1, Size[m]) = Data(m)
<1>1. Data(m) \in Seq(Message \X Nat) /\ Len(Data(m)) = Size[m]
  BY Constants DEF Data
<1>2. SubSeq(Data(m), 1, Size[m]) = Data(m)
  <2> DEFINE s == Data(m)
  <2>1. Len(SubSeq(s, 1, Len(s))) = Len(s) /\ \A k \in 1 .. Len(s) : SubSeq(s, 1, Len(s))[k] = s[k]
    BY <1>1
  <2>2. SubSeq(s, 1, Len(s)) \in Seq(Message \X Nat)
    BY <1>1
  <2> HIDE DEF s
  <2>3. SubSeq(s, 1, Len(s)) = s
    BY <2>1, <2>2, <1>1 DEF s
  <2> QED
    BY <1>1, <2>3 DEF s
<1> QED
  BY <1>1, <1>2

LEMMA JoinSteps ==
  ASSUME NEW m \in Message, NEW f, NumPackets(Size[m]) \in Nat,
         Joins(f, Pieces(m), NumPackets(Size[m]))
  PROVE  /\ f[0] = <<>>
         /\ \A i \in 0 .. NumPackets(Size[m]) - 1 : f[i + 1] = f[i] \o Piece(m, i)
<1> DEFINE n == NumPackets(Size[m])
<1> HIDE DEF n
<1>1. n \in Nat
  BY DEF n
<1>2. \A i \in 0 .. n : f[i] = IF i = 0 THEN <<>> ELSE f[i - 1] \o Chunk(Pieces(m), i - 1)
  BY DEF Joins, n
<1>3. \A i \in 0 .. n - 1 : Chunk(Pieces(m), i) = Piece(m, i)
  BY DEF Chunk, Pieces, n
<1>4. ASSUME NEW i \in 0 .. n - 1 PROVE f[i + 1] = f[i] \o Piece(m, i)
  <2>1. i + 1 \in 0 .. n /\ i + 1 # 0 /\ (i + 1) - 1 = i
    BY <1>1
  <2> QED
    BY <1>2, <1>3, <2>1
<1>5. f[0] = <<>>
  BY <1>1, <1>2
<1> QED
  BY <1>4, <1>5 DEF n

(* As long as the packets are full, i of them are the first i bodies. *)
LEMMA FullBodies ==
  ASSUME NEW m \in Message, NEW f, NumPackets(Size[m]) \in Nat,
         Joins(f, Pieces(m), NumPackets(Size[m])),
         NEW q \in Nat, q <= NumPackets(Size[m]), q * MaxBody <= Size[m],
         \A i \in 0 .. q - 1 : PacketLen(i, Size[m]) = MaxBody
  PROVE  f[q] = SubSeq(Data(m), 1, q * MaxBody)
<1> DEFINE B == MaxBody
           P == {i \in Nat : i <= q => f[i] = SubSeq(Data(m), 1, i * B)}
<1>1. \A i \in 0 .. q - 1 :
        i * B \in Nat /\ (i + 1) * B = i * B + B /\ (i + 1) * B <= q * B
  BY Constants
<1>2. 0 \in P
  <2>1. SubSeq(Data(m), 1, 0 * B) = <<>>
    BY DataSeq, Constants
  <2> QED
    BY JoinSteps, <2>1
<1>3. ASSUME NEW i \in Nat, i \in P PROVE i + 1 \in P
  <2> SUFFICES ASSUME i + 1 <= q PROVE f[i + 1] = SubSeq(Data(m), 1, (i + 1) * B)
    OBVIOUS
  <2>1. i \in 0 .. q - 1 /\ i <= q /\ i \in 0 .. NumPackets(Size[m]) - 1
    OBVIOUS
  <2>2. f[i] = SubSeq(Data(m), 1, i * B)
    BY <1>3, <2>1
  <2>3. Piece(m, i) = SubSeq(Data(m), i * B + 1, (i + 1) * B)
    BY <1>1, <2>1 DEF Piece
  <2>4. /\ i * B \in Nat /\ (i + 1) * B \in Nat /\ i * B <= (i + 1) * B
        /\ (i + 1) * B <= Size[m]
    <3>1. i * B \in Nat /\ (i + 1) * B = i * B + B /\ (i + 1) * B <= q * B
      BY <1>1, <2>1
    <3>2. B \in Nat /\ Size[m] \in Nat /\ q * B \in Nat /\ q * B <= Size[m]
      BY Constants
    <3>3. \A x, b, y, z, l \in Nat : y = x + b /\ y <= z /\ z <= l => x <= y /\ y <= l
      OBVIOUS
    <3>4. (i + 1) * B \in Nat
      <4>1. i * B + B \in Nat
        BY <3>1, <3>2
      <4> QED
        BY <3>1, <4>1
    <3> HIDE DEF B
    <3> QED
      BY <3>1, <3>2, <3>3, <3>4
  <2>5. f[i + 1] = f[i] \o Piece(m, i)
    BY <2>1, JoinSteps
  <2> HIDE DEF B
  <2> QED
    BY <2>2, <2>3, <2>4, <2>5, PrefixExtended, DataSeq
<1> HIDE DEF P
<1>4. \A i \in Nat : i \in P
  BY <1>2, <1>3, InductionOverSet
<1> QED
  BY <1>4 DEF P

(***************************************************************************)
(* A message whose size is no multiple of the body comes out as it went    *)
(* in: the packets of send_all, put together by packet_update              *)
(* (lua_udp.cpp:257-269, 442-464), for every size below 255 bodies.        *)
(***************************************************************************)
THEOREM AssembleIsData ==
  ASSUME NEW m \in Message, SizeOK(m)
  PROVE  Assemble(Pieces(m), NumPackets(Size[m])) = Data(m)
<1> DEFINE B == MaxBody
           n == NumPackets(Size[m])
<1>1. PICK q \in Nat, r \in 1 .. B - 1 :
        /\ Size[m] = q * B + r /\ n = q + 1
        /\ \A i \in 0 .. q : PacketLen(i, Size[m]) = IF i = q THEN r ELSE B
  BY PacketCount
<1>2. PICK f : Joins(f, Pieces(m), n) /\ Assemble(Pieces(m), n) = f[n]
  BY <1>1, AssembleDef
<1>3. q * B \in Nat /\ q * B <= Size[m] /\ Size[m] \in Nat
  BY <1>1, Constants
<1>4. f[q] = SubSeq(Data(m), 1, q * B)
  <2>1. n \in Nat /\ q <= n /\ \A i \in 0 .. q - 1 : PacketLen(i, Size[m]) = B
    BY <1>1
  <2> QED
    BY <1>2, <1>3, <2>1, FullBodies
<1>5. Piece(m, q) = SubSeq(Data(m), q * B + 1, Size[m])
  <2>1. PacketLen(q, Size[m]) = r /\ Size[m] = q * B + r
    BY <1>1
  <2> QED
    BY <2>1 DEF Piece
<1>6. f[n] = f[q] \o Piece(m, q)
  <2>1. n \in Nat /\ q \in 0 .. n - 1 /\ n = q + 1
    BY <1>1
  <2> QED
    BY <1>2, <2>1, JoinSteps
<1>7. f[n] = Data(m)
  <2> DEFINE e == q * B
  <2>1. e \in Nat /\ e <= Size[m] /\ Size[m] \in Nat
    BY <1>3
  <2>2. f[q] = SubSeq(Data(m), 1, e) /\ Piece(m, q) = SubSeq(Data(m), e + 1, Size[m])
    BY <1>4, <1>5
  <2> HIDE DEF e, n
  <2>3. SubSeq(Data(m), 1, e) \o SubSeq(Data(m), e + 1, Size[m]) = SubSeq(Data(m), 1, Size[m])
    <3>1. Data(m) \in Seq(Message \X Nat) /\ Size[m] <= Len(Data(m))
      BY <2>1, DataSeq
    <3> QED
      BY <2>1, <3>1, PrefixExtended
  <2> QED
    BY <1>6, <2>2, <2>3, DataSeq
<1> QED
  BY <1>2, <1>7

(***************************************************************************)
(* A message of an exact multiple of the body comes out without its last   *)
(* body, whatever the multiple: the last packet is given size % MaxBody    *)
(* bytes (lua_udp.cpp:450).                                                *)
(***************************************************************************)
THEOREM LastBodyLost ==
  ASSUME NEW m \in Message, Size[m] % MaxBody = 0, Size[m] \div MaxBody < ByteRange
  PROVE  Assemble(Pieces(m), NumPackets(Size[m])) = SubSeq(Data(m), 1, Size[m] - MaxBody)
<1> DEFINE B == MaxBody
           n == NumPackets(Size[m])
           q == Size[m] \div MaxBody
<1>1. q \in Nat /\ q >= 1 /\ q < ByteRange /\ Size[m] = q * B
  <2>1. Size[m] \in Nat /\ Size[m] > 0 /\ B \in Nat /\ B > 0
    BY Constants
  <2>2. q \in Int /\ q >= 0
    BY <2>1
  <2>3. Size[m] = q * B + (Size[m] % B)
    <3>1. \A a \in Nat, b \in Nat : b > 0 => a = (a \div b) * b + (a % b)
      OBVIOUS
    <3> QED
      BY <2>1, <3>1
  <2> HIDE DEF q
  <2>4. Size[m] = q * B
    BY <2>1, <2>2, <2>3
  <2>5. q # 0
    BY <2>1, <2>4
  <2>6. q < ByteRange
    BY DEF q
  <2> QED
    BY <2>2, <2>4, <2>5, <2>6
<1>2. n = q
  <2> HIDE DEF q
  <2>1. Byte(q) = q
    BY <1>1, ByteType, Constants
  <2>2. ~(Size[m] % MaxBody > 0)
    OBVIOUS
  <2> QED
    BY <2>1, <2>2 DEF NumPackets, q
<1> HIDE DEF q, n
<1>3. PICK f : Joins(f, Pieces(m), n) /\ Assemble(Pieces(m), n) = f[n]
  BY <1>1, <1>2, AssembleDef
<1>4. PICK p \in Nat : q = p + 1
  <2>1. q - 1 \in Nat /\ q = (q - 1) + 1
    BY <1>1
  <2> QED
    BY <2>1
<1>5. p * B \in Nat /\ p * B <= Size[m] /\ Size[m] - B = p * B
  <2>1. (p + 1) * B = p * B + B /\ p * B \in Nat
    BY <1>4, Constants
  <2> QED
    BY <1>1, <1>4, <2>1, Constants
<1>6. f[p] = SubSeq(Data(m), 1, p * B)
  <2>1. \A i \in 0 .. p - 1 : PacketLen(i, Size[m]) = B
    BY <1>2, <1>4 DEF PacketLen, n
  <2>2. n \in Nat /\ p <= n
    BY <1>2, <1>4
  <2> QED
    BY <1>3, <1>5, <2>1, <2>2, FullBodies DEF n
<1>7. f[n] = f[p] \o Piece(m, p)
  <2>1. n \in Nat /\ p \in 0 .. n - 1 /\ n = p + 1
    BY <1>2, <1>4
  <2> QED
    BY <1>3, <2>1, JoinSteps DEF n
<1>8. Piece(m, p) = <<>>
  <2>1. PacketLen(p, Size[m]) = 0
    BY <1>2, <1>4 DEF PacketLen, n
  <2>2. Data(m) \in Seq(Message \X Nat)
    BY DataSeq
  <2> DEFINE e == p * B
  <2>3. e \in Nat /\ Piece(m, p) = SubSeq(Data(m), e + 1, e + 0)
    BY <1>5, <2>1 DEF Piece
  <2> HIDE DEF e
  <2> QED
    BY <2>2, <2>3
<1>9. SubSeq(Data(m), 1, p * B) \in Seq(Message \X Nat)
  BY <1>5, DataSeq
<1>10. f[p] \o Piece(m, p) = f[p]
  BY <1>6, <1>8, <1>9
<1> QED
  BY <1>3, <1>5, <1>6, <1>7, <1>10 DEF n

-----------------------------------------------------------------------------
(* The strengthening. *)

(* Packets are numbered within a byte, and the queue is a sequence. *)
Formed ==
  /\ \A p \in net : p.number \in 0 .. ByteRange - 1
  /\ \E T : recv_queue \in Seq(T)

(* Nothing is known of a uuid under which no message was sent. *)
Fresh ==
  /\ \A u \in Ids : uses[u] = {} =>
       (\A p \in net : p.uuid # u) /\ u \notin DOMAIN uuid_buf /\ count[u] = 0
  /\ \A k \in DOMAIN recv_queue : uses[recv_queue[k].uuid] # {}

(* The packets under a uuid that was used once are those of its message. *)
SentUnder ==
  \A u \in Ids, m \in Message :
    uses[u] = {m} => {p \in net : p.uuid = u} = Packets(m, u)

(* What is kept of a message is a proper part of it, and the rest to come. *)
KeptPart(u, m) ==
  /\ DOMAIN Kept(u) \subseteq 0 .. NumPackets(Size[m]) - 1
  /\ DOMAIN Kept(u) # 0 .. NumPackets(Size[m]) - 1
  /\ \A o \in DOMAIN Kept(u) : Kept(u)[o] = Piece(m, o)

(***************************************************************************)
(* A packet that came before the message was complete is kept.  The        *)
(* messages that came out, and the packet that is kept for the next one,   *)
(* took one arrival each.                                                  *)
(***************************************************************************)
Accounted(u, p) ==
  /\ count[u] = 0 /\ arrivals[p] > 0 => p.order \in DOMAIN Kept(u)
  /\ count[u] <= arrivals[p]
  /\ p.order \in DOMAIN Kept(u) => count[u] < arrivals[p]

Once(u, m) == uses[u] = {m} /\ SizeOK(m)

Reassembly ==
  \A u \in Ids, m \in Message : Once(u, m) =>
    KeptPart(u, m) /\ \A p \in Packets(m, u) : Accounted(u, p)

UdpInv == UdpTypeOK /\ Formed /\ Fresh /\ SentUnder /\ Reassembly /\ Intact

-----------------------------------------------------------------------------
LEMMA PacketFields ==
  ASSUME NEW m \in Message, NEW u, NEW p \in Packets(m, u)
  PROVE  /\ p.uuid = u /\ p.number = NumPackets(Size[m])
         /\ p.order \in 0 .. NumPackets(Size[m]) - 1
         /\ p.data = Piece(m, p.order)
         /\ p = [uuid |-> u, order |-> p.order, number |-> NumPackets(Size[m]),
                 data |-> Piece(m, p.order)]
  BY DEF Packets, Piece

LEMMA PacketOfOrder ==
  ASSUME NEW m \in Message, NEW u, NEW p \in Packets(m, u), NEW r \in Packets(m, u),
         p.order = r.order
  PROVE  p = r
  BY PacketFields

LEMMA NumPacketsType ==
  ASSUME NEW m \in Message
  PROVE  NumPackets(Size[m]) \in 0 .. ByteRange - 1
<1>1. Size[m] \div MaxBody \in Int
  BY Constants
<1>2. Byte(Size[m] \div MaxBody) \in Int
  BY <1>1, ByteType, Constants
<1> QED
  BY <1>1, <1>2, ByteType DEF NumPackets

LEMMA AtLeastOnePacket ==
  ASSUME NEW m \in Message, SizeOK(m)
  PROVE  NumPackets(Size[m]) \in Nat /\ NumPackets(Size[m]) >= 1
  BY PacketCount

(* A message of one packet. *)
LEMMA OnePiece ==
  ASSUME NEW m \in Message, SizeOK(m), NumPackets(Size[m]) = 1
  PROVE  Piece(m, 0) = Data(m)
<1>1. PICK q \in Nat, r \in 1 .. MaxBody - 1 :
        /\ Size[m] = q * MaxBody + r /\ NumPackets(Size[m]) = q + 1
        /\ \A i \in 0 .. q : PacketLen(i, Size[m]) = IF i = q THEN r ELSE MaxBody
  BY PacketCount
<1>2. q = 0 /\ Size[m] = r
  BY <1>1, Constants
<1>3. PacketLen(0, Size[m]) = Size[m]
  BY <1>1, <1>2
<1>4. 0 * MaxBody + 1 = 1 /\ 0 * MaxBody + Size[m] = Size[m]
  BY Constants
<1> QED
  BY <1>3, <1>4, DataSeq DEF Piece

(* All orders are there when there are as many as packets. *)
LEMMA CompleteIsAll ==
  ASSUME NEW buf, NEW n \in Nat, DOMAIN buf \subseteq 0 .. n - 1
  PROVE  Complete(buf, n) <=> DOMAIN buf = 0 .. n - 1
<1>1. IsFiniteSet(0 .. n - 1) /\ Cardinality(0 .. n - 1) = n
  BY FS_Interval
<1>2. DOMAIN buf # 0 .. n - 1 => Cardinality(DOMAIN buf) # n
  BY <1>1, FS_Subset
<1> QED
  BY <1>1, <1>2 DEF Complete

LEMMA TrimSuffix ==
  ASSUME NEW T, NEW q \in Seq(T)
  PROVE  /\ Trim(q) \in Seq(T)
         /\ \A k \in DOMAIN Trim(q) : \E j \in DOMAIN q : Trim(q)[k] = q[j]
<1>1. CASE Len(q) > maxQueueSize
  <2>1. Trim(q) = SubSeq(q, Len(q) - maxQueueSize + 1, Len(q))
    BY <1>1 DEF Trim
  <2>2. Trim(q) \in Seq(T) /\ Len(Trim(q)) = maxQueueSize
    BY <1>1, <2>1, Constants
  <2>3. \A k \in 1 .. maxQueueSize : Trim(q)[k] = q[Len(q) - maxQueueSize + k]
    BY <1>1, <2>1, Constants
  <2>4. ASSUME NEW k \in DOMAIN Trim(q)
        PROVE  \E j \in DOMAIN q : Trim(q)[k] = q[j]
    <3>1. k \in 1 .. maxQueueSize /\ Len(q) - maxQueueSize + k \in DOMAIN q
      BY <1>1, <2>2, Constants
    <3> QED
      BY <2>3, <3>1
  <2> QED
    BY <2>2, <2>4
<1>2. CASE ~(Len(q) > maxQueueSize)
  BY <1>2 DEF Trim
<1> QED
  BY <1>1, <1>2

LEMMA UdpInitInv == UdpInit => UdpInv
<1> SUFFICES ASSUME UdpInit PROVE UdpInv
  OBVIOUS
<1> USE Constants DEF UdpInit
<1>1. UdpTypeOK
  BY DEF UdpTypeOK
<1>2. Formed
  <2>1. recv_queue \in Seq({})
    OBVIOUS
  <2> QED
    BY <2>1 DEF Formed
<1>3. Fresh /\ SentUnder /\ Reassembly /\ Intact
  BY DEF Fresh, SentUnder, Reassembly, Once, Intact
<1> QED
  BY <1>1, <1>2, <1>3 DEF UdpInv

LEMMA SendAllKeeps ==
  ASSUME UdpInv, NEW m \in Message, SendAll(m)
  PROVE  UdpInv'
<1> DEFINE u == Uuid[drawn + 1]
<1>1. /\ UdpTypeOK /\ Formed /\ Fresh /\ SentUnder /\ Reassembly /\ Intact
      /\ drawn \in 0 .. Len(Uuid) /\ drawn < Len(Uuid) /\ drawn' = drawn + 1
      /\ unsent' = unsent \ {m} /\ net' = net \cup Packets(m, u)
      /\ uses' = [uses EXCEPT ![u] = @ \cup {m}]
      /\ arrivals' = [p \in net' |-> IF p \in net THEN arrivals[p] ELSE 0]
      /\ UNCHANGED <<restarts, uuid_buf, recv_queue, count>>
  BY DEF UdpInv, UdpTypeOK, SendAll
<1>2. u \in Ids
  BY <1>1, Constants
<1> HIDE DEF u
<1>3. \A p \in Packets(m, u) :
        p.uuid = u /\ p.number \in 0 .. ByteRange - 1 /\ p.order \in 0 .. p.number - 1
  BY PacketFields, NumPacketsType
<1>4. uses \in [Ids -> SUBSET Message] /\ uses' \in [Ids -> SUBSET Message]
  BY <1>1, <1>2 DEF UdpTypeOK
<1>5. uses'[u] = uses[u] \cup {m} /\ \A v \in Ids : v # u => uses'[v] = uses[v]
  BY <1>1, <1>2, <1>4
<1>6. UdpTypeOK'
  <2>1. unsent' \subseteq Message /\ drawn' \in 0 .. Len(Uuid) /\ restarts' \in Nat
    BY <1>1, Constants DEF UdpTypeOK
  <2>2. \A p \in net' : p.uuid \in Ids /\ p.order \in 0 .. p.number - 1
    BY <1>1, <1>2, <1>3 DEF UdpTypeOK
  <2>3. arrivals' \in [net' -> 0 .. MaxArrivals]
    <3>1. \A p \in net : arrivals[p] \in 0 .. MaxArrivals
      BY <1>1 DEF UdpTypeOK
    <3> QED
      BY <3>1, <1>1, Constants
  <2> QED
    BY <1>1, <1>4, <2>1, <2>2, <2>3 DEF UdpTypeOK
<1>7. Formed'
  BY <1>1, <1>3 DEF Formed
<1>8. Fresh'
  <2>1. ASSUME NEW v \in Ids, uses'[v] = {}
        PROVE  (\A p \in net' : p.uuid # v) /\ v \notin DOMAIN uuid_buf' /\ count'[v] = 0
    <3>1. v # u /\ uses[v] = {}
      BY <1>5, <2>1
    <3> QED
      BY <1>1, <1>3, <3>1 DEF Fresh
  <2>2. ASSUME NEW k \in DOMAIN recv_queue PROVE uses'[recv_queue[k].uuid] # {}
    BY <1>1, <1>5 DEF Fresh, UdpTypeOK
  <2> QED
    BY <1>1, <2>1, <2>2 DEF Fresh
(* A uuid whose only message is m1 either had it before, or gets it now. *)
<1>9. ASSUME NEW v \in Ids, NEW m1 \in Message, uses'[v] = {m1}
      PROVE  \/ uses[v] = {m1} /\ {p \in net' : p.uuid = v} = {p \in net : p.uuid = v}
             \/ v = u /\ m1 = m /\ uses[v] = {}
  <2>1. CASE v # u
    BY <1>1, <1>3, <1>5, <1>9, <2>1
  <2>2. CASE v = u /\ uses[u] = {}
    BY <1>5, <1>9, <2>2
  <2>3. CASE v = u /\ uses[u] # {}
    <3>1. m1 = m /\ uses[u] = {m}
      BY <1>5, <1>9, <2>3
    <3>2. Packets(m, u) = {p \in net : p.uuid = u}
      BY <1>1, <1>2, <3>1 DEF SentUnder
    <3>3. net' = net
      BY <1>1, <3>2
    <3> QED
      BY <2>3, <3>1, <3>3
  <2> QED
    BY <2>1, <2>2, <2>3
<1>10. SentUnder'
  <2> SUFFICES ASSUME NEW v \in Ids, NEW m1 \in Message, uses'[v] = {m1}
               PROVE  {p \in net' : p.uuid = v} = Packets(m1, v)
    BY DEF SentUnder
  <2>1. CASE uses[v] = {m1} /\ {p \in net' : p.uuid = v} = {p \in net : p.uuid = v}
    BY <1>1, <2>1 DEF SentUnder
  <2>2. CASE v = u /\ m1 = m /\ uses[v] = {}
    <3>1. \A p \in net : p.uuid # u
      BY <1>1, <2>2 DEF Fresh
    <3> QED
      BY <1>1, <1>3, <2>2, <3>1
  <2> QED
    BY <1>9, <2>1, <2>2
<1>11. Reassembly'
  <2> SUFFICES ASSUME NEW v \in Ids, NEW m1 \in Message, Once(v, m1)'
               PROVE  KeptPart(v, m1)' /\ \A p \in Packets(m1, v) : Accounted(v, p)'
    BY DEF Reassembly
  <2>1. uses'[v] = {m1} /\ SizeOK(m1)
    BY DEF Once
  <2>2. CASE uses[v] = {m1} /\ {p \in net' : p.uuid = v} = {p \in net : p.uuid = v}
    <3>1. KeptPart(v, m1) /\ \A p \in Packets(m1, v) : Accounted(v, p)
      BY <1>1, <2>1, <2>2 DEF Reassembly, Once
    <3>2. KeptPart(v, m1)'
      BY <1>1, <3>1 DEF KeptPart, Kept
    <3>3. \A p \in Packets(m1, v) : p \in net /\ arrivals'[p] = arrivals[p]
      BY <1>1, <2>2 DEF SentUnder
    <3> QED
      BY <1>1, <3>1, <3>2, <3>3 DEF Accounted, Kept
  <2>3. CASE v = u /\ m1 = m /\ uses[v] = {}
    <3>1. /\ \A p \in net : p.uuid # u
          /\ u \notin DOMAIN uuid_buf /\ count[u] = 0
      BY <1>1, <2>3 DEF Fresh
    <3>2. Kept(v)' = <<>> /\ count'[v] = 0
      BY <1>1, <2>3, <3>1 DEF Kept
    <3>3. \A p \in Packets(m1, v) : arrivals'[p] = 0
      BY <1>1, <1>3, <2>3, <3>1
    <3>4. KeptPart(v, m1)'
      <4>1. 0 \in 0 .. NumPackets(Size[m1]) - 1
        BY <2>1, AtLeastOnePacket
      <4> QED
        BY <3>2, <4>1 DEF KeptPart
    <3> QED
      BY <3>2, <3>3, <3>4 DEF Accounted
  <2> QED
    BY <1>9, <2>1, <2>2, <2>3
<1>12. Intact'
  <2> SUFFICES ASSUME NEW k \in DOMAIN recv_queue, NEW m1 \in Message,
                      uses'[recv_queue[k].uuid] = {m1}, SizeOK(m1)
               PROVE  recv_queue[k].data = Data(m1)
    BY <1>1 DEF Intact
  <2>1. recv_queue[k].uuid \in Ids /\ uses[recv_queue[k].uuid] # {}
    BY <1>1 DEF UdpTypeOK, Fresh
  <2>2. uses[recv_queue[k].uuid] = {m1}
    BY <2>1, <1>9
  <2> QED
    BY <1>1, <2>2 DEF Intact
<1> QED
  BY <1>6, <1>7, <1>8, <1>10, <1>11, <1>12 DEF UdpInv

(***************************************************************************)
(* What a packet does to its uuid, when one message was sent under it: it  *)
(* is kept, or the message comes out and nothing of it is kept.            *)
(***************************************************************************)
LEMMA PacketEffect ==
  ASSUME UdpInv, NEW p \in net, PacketUpdate(p),
         NEW m \in Message, Once(p.uuid, m)
  PROVE  LET u == p.uuid
             buf == Insert(Kept(u), p)
             n == NumPackets(Size[m])
         IN \/ /\ recv_queue' = Append(recv_queue, [uuid |-> u, data |-> Data(m)])
               /\ count' = [count EXCEPT ![u] = @ + 1]
               /\ DOMAIN Kept(u)' = {}
               /\ DOMAIN buf = 0 .. n - 1
            \/ /\ UNCHANGED <<recv_queue, count>>
               /\ Kept(u)' = buf
               /\ KeptPart(u, m)'
<1> DEFINE u == p.uuid
           buf == Insert(Kept(u), p)
           n == NumPackets(Size[m])
<1>1. u \in Ids /\ uses[u] = {m} /\ SizeOK(m) /\ KeptPart(u, m) /\ p \in Packets(m, u)
  BY DEF UdpInv, UdpTypeOK, Once, Reassembly, SentUnder
<1>2. n \in Nat /\ n >= 1
  BY <1>1, AtLeastOnePacket
<1>3. p.number = n /\ p.order \in 0 .. n - 1 /\ p.data = Piece(m, p.order)
  BY <1>1, PacketFields
<1>4. /\ DOMAIN buf = DOMAIN Kept(u) \cup {p.order}
      /\ DOMAIN buf \subseteq 0 .. n - 1
      /\ \A o \in DOMAIN buf : buf[o] = Piece(m, o)
      /\ buf = [o \in DOMAIN buf |-> buf[o]]
  BY <1>1, <1>3 DEF Insert, KeptPart
<1>5. CASE p.number = 1
  <2>1. Deliver(u, p.data) /\ UNCHANGED uuid_buf
    BY <1>5 DEF PacketUpdate
  <2>2. n = 1 /\ p.order = 0
    BY <1>3, <1>5
  <2>3. p.data = Data(m)
    BY <1>1, <1>3, <2>2, OnePiece
  <2>4. DOMAIN Kept(u) \subseteq {0} /\ DOMAIN Kept(u) # {0}
    <3>1. 0 .. n - 1 = {0}
      BY <2>2
    <3> QED
      BY <1>1, <3>1 DEF KeptPart
  <2>5. DOMAIN Kept(u) = {}
    BY <2>4, Zenon
  <2>6. DOMAIN buf = 0 .. n - 1
    <3>1. 0 .. n - 1 = {0}
      BY <2>2
    <3> QED
      BY <1>4, <2>2, <2>5, <3>1
  <2> QED
    BY <2>1, <2>3, <2>5, <2>6 DEF Deliver, Kept
<1>6. CASE p.number # 1 /\ Complete(buf, p.number)
  <2>1. Deliver(u, Assemble(buf, n)) /\ ClearBuf(u, buf)
    BY <1>3, <1>6 DEF PacketUpdate
  <2>2. DOMAIN buf = 0 .. n - 1
    BY <1>2, <1>3, <1>4, <1>6, CompleteIsAll
  <2>3. buf = Pieces(m)
    BY <1>4, <2>2 DEF Pieces
  <2>4. Assemble(buf, n) = Data(m)
    BY <1>1, <2>3, AssembleIsData
  <2>5. Kept(u)' = <<>>
    BY <2>1 DEF ClearBuf, Kept
  <2> QED
    BY <2>1, <2>2, <2>4, <2>5 DEF Deliver
<1>7. CASE p.number # 1 /\ ~Complete(buf, p.number)
  <2>1. /\ uuid_buf' = [v \in DOMAIN uuid_buf \cup {u} |-> IF v = u THEN buf ELSE uuid_buf[v]]
        /\ UNCHANGED <<recv_queue, count>>
    BY <1>7 DEF PacketUpdate
  <2>2. Kept(u)' = buf
    BY <2>1 DEF Kept
  <2>3. DOMAIN buf # 0 .. n - 1
    BY <1>2, <1>3, <1>4, <1>7, CompleteIsAll
  <2>4. KeptPart(u, m)'
    BY <1>4, <2>2, <2>3 DEF KeptPart
  <2> QED
    BY <2>1, <2>2, <2>4
<1> QED
  BY <1>5, <1>6, <1>7

(* Another uuid is not touched. *)
LEMMA PacketLeaves ==
  ASSUME UdpInv, NEW p \in net, PacketUpdate(p), NEW v \in Ids, v # p.uuid
  PROVE  Kept(v)' = Kept(v) /\ count'[v] = count[v] /\ (v \in DOMAIN uuid_buf' <=> v \in DOMAIN uuid_buf)
<1> DEFINE buf == Insert(Kept(p.uuid), p)
<1>1. \/ \E d : Deliver(p.uuid, d) /\ UNCHANGED uuid_buf
      \/ \E d : Deliver(p.uuid, d) /\ ClearBuf(p.uuid, buf)
      \/ /\ uuid_buf' = [w \in DOMAIN uuid_buf \cup {p.uuid} |->
                            IF w = p.uuid THEN buf ELSE uuid_buf[w]]
         /\ UNCHANGED <<recv_queue, count>>
  BY DEF PacketUpdate
<1>2. count \in [Ids -> Nat]
  BY DEF UdpInv, UdpTypeOK
<1>3. CASE \E d : Deliver(p.uuid, d) /\ UNCHANGED uuid_buf
  BY <1>2, <1>3 DEF Deliver, Kept
<1>4. CASE \E d : Deliver(p.uuid, d) /\ ClearBuf(p.uuid, buf)
  <2> HIDE DEF buf
  <2> QED
    BY <1>2, <1>4 DEF Deliver, ClearBuf, Kept
<1>5. CASE /\ uuid_buf' = [w \in DOMAIN uuid_buf \cup {p.uuid} |->
                              IF w = p.uuid THEN buf ELSE uuid_buf[w]]
           /\ UNCHANGED <<recv_queue, count>>
  <2> HIDE DEF buf
  <2> QED
    BY <1>5 DEF Kept
<1> QED
  BY <1>1, <1>3, <1>4, <1>5

(* The types, and what is appended to the queue. *)
LEMMA PacketType ==
  ASSUME UdpInv, NEW p \in net, PacketUpdate(p)
  PROVE  /\ UdpTypeOK' /\ Formed'
         /\ \/ recv_queue' = recv_queue
            \/ \E d : recv_queue' = Append(recv_queue, [uuid |-> p.uuid, data |-> d])
<1> DEFINE u == p.uuid
           buf == Insert(Kept(u), p)
<1>1. /\ UdpTypeOK /\ Formed /\ u \in Ids /\ p.order \in 0 .. p.number - 1
      /\ p.number \in 0 .. ByteRange - 1
      /\ arrivals' = [arrivals EXCEPT ![p] = @ + 1] /\ arrivals[p] < MaxArrivals
      /\ UNCHANGED <<unsent, drawn, restarts, net, uses>>
  BY DEF UdpInv, UdpTypeOK, Formed, PacketUpdate
<1>2. p.order \in 0 .. ByteRange - 1
  BY <1>1, Constants
<1>3. DOMAIN buf \subseteq 0 .. ByteRange - 1
  BY <1>1, <1>2 DEF Insert, Kept, UdpTypeOK
<1>4. \/ \E d : Deliver(u, d) /\ UNCHANGED uuid_buf
      \/ \E d : Deliver(u, d) /\ ClearBuf(u, buf)
      \/ /\ uuid_buf' = [w \in DOMAIN uuid_buf \cup {u} |-> IF w = u THEN buf ELSE uuid_buf[w]]
         /\ UNCHANGED <<recv_queue, count>>
  BY DEF PacketUpdate
<1> HIDE DEF buf, u
<1>5. /\ DOMAIN uuid_buf' \subseteq Ids
      /\ \A v \in DOMAIN uuid_buf' : DOMAIN uuid_buf'[v] \subseteq 0 .. ByteRange - 1
  <2>1. /\ DOMAIN uuid_buf \subseteq Ids
        /\ \A v \in DOMAIN uuid_buf : DOMAIN uuid_buf[v] \subseteq 0 .. ByteRange - 1
    BY <1>1 DEF UdpTypeOK
  <2>2. CASE UNCHANGED uuid_buf
    BY <2>1, <2>2
  <2>3. CASE ClearBuf(u, buf)
    BY <1>1, <2>1, <2>3 DEF ClearBuf
  <2>4. CASE uuid_buf' = [w \in DOMAIN uuid_buf \cup {u} |-> IF w = u THEN buf ELSE uuid_buf[w]]
    BY <1>1, <1>3, <2>1, <2>4
  <2> QED
    BY <1>4, <2>2, <2>3, <2>4
<1>6. \/ UNCHANGED <<recv_queue, count>>
      \/ \E d : Deliver(u, d)
  BY <1>4
<1>7. \/ recv_queue' = recv_queue
      \/ \E d : recv_queue' = Append(recv_queue, [uuid |-> u, data |-> d])
  BY <1>6 DEF Deliver
<1>8. count' \in [Ids -> Nat]
  <2>1. count \in [Ids -> Nat]
    BY <1>1 DEF UdpTypeOK
  <2>2. count' = count \/ count' = [count EXCEPT ![u] = @ + 1]
    BY <1>6 DEF Deliver
  <2> QED
    BY <1>1, <2>1, <2>2
<1>9. arrivals' \in [net' -> 0 .. MaxArrivals]
  BY <1>1, Constants DEF UdpTypeOK
<1>10. PICK T : recv_queue \in Seq(T)
  BY <1>1 DEF Formed
<1>11. Formed' /\ \A k \in DOMAIN recv_queue' : recv_queue'[k].uuid \in Ids
  <2>1. CASE recv_queue' = recv_queue
    BY <1>1, <1>10, <2>1 DEF Formed, UdpTypeOK
  <2>2. ASSUME NEW d, recv_queue' = Append(recv_queue, [uuid |-> u, data |-> d])
        PROVE  Formed' /\ \A k \in DOMAIN recv_queue' : recv_queue'[k].uuid \in Ids
    <3> DEFINE e == [uuid |-> u, data |-> d]
    <3>1. e.uuid = u
      OBVIOUS
    <3> HIDE DEF e
    <3>2. recv_queue' \in Seq(T \cup {e})
      <4>1. recv_queue \in Seq(T \cup {e})
        BY <1>10
      <4> QED
        BY <2>2, <4>1 DEF e
    <3>3. /\ DOMAIN recv_queue' = 1 .. Len(recv_queue) + 1 /\ Len(recv_queue) \in Nat
          /\ DOMAIN recv_queue = 1 .. Len(recv_queue)
          /\ \A k \in 1 .. Len(recv_queue) : recv_queue'[k] = recv_queue[k]
          /\ recv_queue'[Len(recv_queue) + 1] = e
      BY <1>10, <2>2 DEF e
    <3>4. ASSUME NEW k \in DOMAIN recv_queue' PROVE recv_queue'[k].uuid \in Ids
      <4>1. CASE k \in 1 .. Len(recv_queue)
        BY <1>1, <3>3, <4>1 DEF UdpTypeOK
      <4>2. CASE k = Len(recv_queue) + 1
        BY <1>1, <3>1, <3>3, <4>2
      <4> QED
        BY <3>3, <4>1, <4>2
    <3> QED
      BY <1>1, <3>2, <3>4 DEF Formed
  <2> QED
    BY <1>7, <2>1, <2>2
<1>12. UdpTypeOK'
  BY <1>1, <1>5, <1>8, <1>9, <1>11 DEF UdpTypeOK
<1> QED
  BY <1>7, <1>11, <1>12 DEF u

LEMMA PacketKeeps ==
  ASSUME UdpInv, NEW p \in net, PacketUpdate(p)
  PROVE  UdpInv'
<1> DEFINE u == p.uuid
           buf == Insert(Kept(u), p)
<1>1. /\ UdpTypeOK /\ Formed /\ Fresh /\ SentUnder /\ Reassembly /\ Intact
      /\ u \in Ids /\ uses[u] # {}
      /\ count \in [Ids -> Nat] /\ arrivals \in [net -> 0 .. MaxArrivals]
      /\ arrivals' = [arrivals EXCEPT ![p] = @ + 1]
      /\ UNCHANGED <<unsent, drawn, restarts, net, uses>>
  BY DEF UdpInv, UdpTypeOK, Fresh, PacketUpdate
<1>2. /\ UdpTypeOK' /\ Formed'
      /\ \/ recv_queue' = recv_queue
         \/ \E d : recv_queue' = Append(recv_queue, [uuid |-> u, data |-> d])
  BY PacketType
<1>3. \A v \in Ids : v # u => /\ Kept(v)' = Kept(v) /\ count'[v] = count[v]
                              /\ v \in DOMAIN uuid_buf' <=> v \in DOMAIN uuid_buf
  BY PacketLeaves
<1>4. PICK T : recv_queue \in Seq(T)
  BY <1>1 DEF Formed
(* A message in the queue was there before, or was delivered now. *)
<1>5. ASSUME NEW d, recv_queue' = Append(recv_queue, [uuid |-> u, data |-> d]),
             NEW k \in DOMAIN recv_queue'
      PROVE  \/ k \in DOMAIN recv_queue /\ recv_queue'[k] = recv_queue[k]
             \/ recv_queue'[k].uuid = u /\ recv_queue'[k].data = d
  <2>1. /\ DOMAIN recv_queue = 1 .. Len(recv_queue) /\ Len(recv_queue) \in Nat
        /\ DOMAIN recv_queue' = 1 .. Len(recv_queue) + 1
        /\ \A i \in 1 .. Len(recv_queue) : recv_queue'[i] = recv_queue[i]
        /\ recv_queue'[Len(recv_queue) + 1] = [uuid |-> u, data |-> d]
    BY <1>4, <1>5
  <2>2. k \in 1 .. Len(recv_queue) \/ k = Len(recv_queue) + 1
    BY <2>1
  <2> QED
    BY <2>1, <2>2
<1>6. Fresh'
  <2>1. ASSUME NEW v \in Ids, uses[v] = {}
        PROVE  (\A r \in net : r.uuid # v) /\ v \notin DOMAIN uuid_buf' /\ count'[v] = 0
    BY <1>1, <1>3, <2>1 DEF Fresh
  <2>2. ASSUME NEW k \in DOMAIN recv_queue' PROVE uses[recv_queue'[k].uuid] # {}
    BY <1>1, <1>2, <1>5 DEF Fresh
  <2> QED
    BY <1>1, <2>1, <2>2 DEF Fresh
<1>7. SentUnder'
  BY <1>1 DEF SentUnder
(* The account of one message sent under the uuid of the packet. *)
<1>8. ASSUME NEW m \in Message, Once(u, m)
      PROVE  KeptPart(u, m)' /\ \A r \in Packets(m, u) : Accounted(u, r)'
  <2> DEFINE n == NumPackets(Size[m])
  <2>1. n \in Nat /\ n >= 1
    BY <1>8, AtLeastOnePacket DEF Once
  <2>2. /\ KeptPart(u, m) /\ \A r \in Packets(m, u) : Accounted(u, r)
        /\ {r \in net : r.uuid = u} = Packets(m, u)
    BY <1>1, <1>8 DEF Reassembly, Once, SentUnder
  <2>3. /\ p \in Packets(m, u)
        /\ \A r \in Packets(m, u) : r \in net /\ r.order \in 0 .. n - 1
        /\ \A r \in Packets(m, u) : r.order = p.order => r = p
    BY <2>2, PacketFields, PacketOfOrder
  <2>4. DOMAIN buf = DOMAIN Kept(u) \cup {p.order}
    BY DEF Insert
  <2>5. /\ arrivals'[p] = arrivals[p] + 1
        /\ \A r \in net : arrivals[r] \in Nat /\ arrivals'[r] \in Nat
        /\ \A r \in net : r # p => arrivals'[r] = arrivals[r]
    BY <1>1, Constants
  <2>6. count[u] \in Nat
    BY <1>1
  <2>7. CASE /\ recv_queue' = Append(recv_queue, [uuid |-> u, data |-> Data(m)])
             /\ count' = [count EXCEPT ![u] = @ + 1]
             /\ DOMAIN Kept(u)' = {}
             /\ DOMAIN buf = 0 .. n - 1
    <3>1. KeptPart(u, m)'
      <4>1. 0 \in 0 .. n - 1
        BY <2>1
      <4> QED
        BY <2>7, <4>1 DEF KeptPart
    <3>2. count'[u] = count[u] + 1
      BY <1>1, <2>7
    <3>3. ASSUME NEW r \in Packets(m, u) PROVE count[u] + 1 <= arrivals'[r]
      <4>1. CASE r.order \in DOMAIN Kept(u)
        <5>1. count[u] < arrivals[r] /\ r \in net
          BY <2>2, <2>3, <4>1 DEF Accounted
        <5>2. arrivals'[r] >= arrivals[r] /\ arrivals[r] \in Nat
          BY <2>5, <5>1
        <5> QED
          BY <2>5, <2>6, <5>1, <5>2
      <4>2. CASE r.order \notin DOMAIN Kept(u)
        <5>1. r = p
          BY <2>3, <2>4, <2>7, <4>2
        <5>2. count[u] <= arrivals[r]
          BY <2>2 DEF Accounted
        <5> QED
          BY <2>3, <2>5, <2>6, <5>1, <5>2
      <4> QED
        BY <4>1, <4>2
    <3>4. ASSUME NEW r \in Packets(m, u) PROVE Accounted(u, r)'
      <4>1. count'[u] <= arrivals'[r] /\ count'[u] # 0
        BY <2>6, <3>2, <3>3
      <4> QED
        BY <2>7, <4>1 DEF Accounted
    <3> QED
      BY <3>1, <3>4
  <2>8. CASE /\ UNCHANGED <<recv_queue, count>> /\ Kept(u)' = buf /\ KeptPart(u, m)'
    <3>1. ASSUME NEW r \in Packets(m, u) PROVE Accounted(u, r)'
      <4>1. Accounted(u, r) /\ r \in net
        BY <2>2, <2>3
      <4>2. CASE r = p
        <5>1. count[u] < arrivals'[r] /\ r.order \in DOMAIN Kept(u)'
          BY <2>4, <2>5, <2>6, <2>8, <4>1, <4>2 DEF Accounted
        <5>2. count'[u] = count[u] /\ count[u] <= arrivals'[r]
          BY <2>5, <2>6, <2>8, <4>1, <5>1
        <5> QED
          BY <5>1, <5>2 DEF Accounted
      <4>3. CASE r # p
        <5>1. arrivals'[r] = arrivals[r] /\ r.order # p.order
          BY <2>3, <2>5, <4>1, <4>3
        <5>2. r.order \in DOMAIN Kept(u)' <=> r.order \in DOMAIN Kept(u)
          BY <2>4, <2>8, <5>1
        <5> QED
          BY <2>8, <4>1, <5>1, <5>2 DEF Accounted
      <4> QED
        BY <4>2, <4>3
    <3> QED
      BY <2>8, <3>1
  <2> QED
    BY <1>8, <2>7, <2>8, PacketEffect
<1>9. Reassembly'
  <2> SUFFICES ASSUME NEW v \in Ids, NEW m \in Message, Once(v, m)'
               PROVE  KeptPart(v, m)' /\ \A r \in Packets(m, v) : Accounted(v, r)'
    BY DEF Reassembly
  <2>1. Once(v, m)
    BY <1>1 DEF Once
  <2>2. CASE v = u
    BY <1>8, <2>1, <2>2
  <2>3. CASE v # u
    <3>1. KeptPart(v, m) /\ \A r \in Packets(m, v) : Accounted(v, r)
      BY <1>1, <2>1 DEF Reassembly
    <3>2. Kept(v)' = Kept(v) /\ count'[v] = count[v]
      BY <1>3, <2>3
    <3>3. KeptPart(v, m)'
      BY <3>1, <3>2 DEF KeptPart
    <3>4. ASSUME NEW r \in Packets(m, v) PROVE arrivals'[r] = arrivals[r]
      <4>1. r \in net /\ r # p
        BY <1>1, <2>1, <2>3, PacketFields DEF SentUnder, Once
      <4> QED
        BY <1>1, <4>1
    <3>5. \A r \in Packets(m, v) : Accounted(v, r)'
      BY <3>1, <3>2, <3>4 DEF Accounted
    <3> QED
      BY <3>3, <3>5
  <2> QED
    BY <2>2, <2>3
<1>10. Intact'
  <2> SUFFICES ASSUME NEW k \in DOMAIN recv_queue', NEW m \in Message,
                      uses[recv_queue'[k].uuid] = {m}, SizeOK(m)
               PROVE  recv_queue'[k].data = Data(m)
    BY <1>1 DEF Intact
  <2>1. CASE recv_queue' = recv_queue
    BY <1>1, <2>1 DEF Intact
  <2>2. ASSUME NEW d, recv_queue' = Append(recv_queue, [uuid |-> u, data |-> d])
        PROVE  recv_queue'[k].data = Data(m)
    <3>1. CASE k \in DOMAIN recv_queue /\ recv_queue'[k] = recv_queue[k]
      BY <1>1, <3>1 DEF Intact
    <3>2. CASE recv_queue'[k].uuid = u /\ recv_queue'[k].data = d
      <4>1. Once(u, m)
        BY <3>2 DEF Once
      <4>2. recv_queue' # recv_queue
        <5>1. Len(recv_queue') = Len(recv_queue) + 1 /\ Len(recv_queue) \in Nat
          BY <1>4, <2>2
        <5> QED
          BY <5>1
      <4>3. recv_queue' = Append(recv_queue, [uuid |-> u, data |-> Data(m)])
        BY <4>1, <4>2, PacketEffect
      <4>4. recv_queue'[Len(recv_queue) + 1] = [uuid |-> u, data |-> Data(m)]
            /\ recv_queue'[Len(recv_queue) + 1] = [uuid |-> u, data |-> d]
        BY <1>4, <2>2, <4>3
      <4> QED
        BY <3>2, <4>4
    <3> QED
      BY <1>5, <2>2, <3>1, <3>2
  <2> QED
    BY <1>2, <2>1, <2>2
<1> QED
  BY <1>2, <1>6, <1>7, <1>9, <1>10 DEF UdpInv

(***************************************************************************)
(* A step that only drops messages of the queue, or starts the draw of the *)
(* uuids again, keeps the invariant.                                       *)
(***************************************************************************)
LEMMA QueueShrinks ==
  ASSUME UdpInv, UNCHANGED <<unsent, net, arrivals, uuid_buf, uses, count>>,
         drawn' \in 0 .. Len(Uuid), restarts' \in Nat,
         NEW T, recv_queue' \in Seq(T),
         \A k \in DOMAIN recv_queue' : \E j \in DOMAIN recv_queue :
            recv_queue'[k] = recv_queue[j]
  PROVE  UdpInv'
<1>1. UdpTypeOK /\ Formed /\ Fresh /\ SentUnder /\ Reassembly /\ Intact
  BY DEF UdpInv
<1>2. UdpTypeOK'
  BY <1>1 DEF UdpTypeOK
<1>3. Formed'
  BY <1>1 DEF Formed
<1>4. Fresh'
  BY <1>1 DEF Fresh
<1>5. SentUnder'
  BY <1>1 DEF SentUnder
<1>6. Reassembly'
  BY <1>1 DEF Reassembly, Once, KeptPart, Accounted, Kept
<1>7. Intact'
  BY <1>1 DEF Intact
<1> QED
  BY <1>2, <1>3, <1>4, <1>5, <1>6, <1>7 DEF UdpInv

THEOREM UdpInvariance == UdpSpec => []UdpInv
<1>1. UdpInit => UdpInv
  BY UdpInitInv
<1>2. UdpInv /\ [UdpNext]_udpvars => UdpInv'
  <2> SUFFICES ASSUME UdpInv, [UdpNext]_udpvars PROVE UdpInv'
    OBVIOUS
  <2>1. drawn \in 0 .. Len(Uuid) /\ restarts \in Nat /\ 0 \in 0 .. Len(Uuid)
    BY Constants DEF UdpInv, UdpTypeOK
  <2>2. PICK T : recv_queue \in Seq(T)
    BY DEF UdpInv, Formed
  <2>3. ASSUME NEW m \in Message, SendAll(m) PROVE UdpInv'
    BY <2>3, SendAllKeeps
  <2>4. CASE Restart
    <3>1. \A k \in DOMAIN recv_queue' : \E j \in DOMAIN recv_queue : recv_queue'[k] = recv_queue[j]
      BY <2>4 DEF Restart
    <3> QED
      BY <2>1, <2>2, <2>4, <3>1, QueueShrinks DEF Restart
  <2>5. ASSUME NEW p \in net, PacketUpdate(p) PROVE UdpInv'
    BY <2>5, PacketKeeps
  <2>6. CASE SizeCall
    <3>1. recv_queue' = Trim(recv_queue)
          /\ UNCHANGED <<unsent, drawn, restarts, net, arrivals, uuid_buf, uses, count>>
      BY <2>6 DEF SizeCall
    <3>2. /\ recv_queue' \in Seq(T)
          /\ \A k \in DOMAIN recv_queue' : \E j \in DOMAIN recv_queue : recv_queue'[k] = recv_queue[j]
      BY <2>2, <3>1, TrimSuffix
    <3> QED
      BY <2>1, <3>1, <3>2, QueueShrinks
  <2>7. CASE Receive
    <3> DEFINE q == Trim(recv_queue)
    <3>1. /\ recv_queue' = Tail(q) /\ q # <<>>
          /\ UNCHANGED <<unsent, drawn, restarts, net, arrivals, uuid_buf, uses, count>>
      BY <2>7 DEF Receive
    <3>2. q \in Seq(T) /\ \A k \in DOMAIN q : \E j \in DOMAIN recv_queue : q[k] = recv_queue[j]
      BY <2>2, TrimSuffix
    <3> HIDE DEF q
    <3>3. recv_queue' \in Seq(T)
          /\ \A k \in DOMAIN recv_queue' : k + 1 \in DOMAIN q /\ recv_queue'[k] = q[k + 1]
      BY <3>1, <3>2
    <3>4. \A k \in DOMAIN recv_queue' : \E j \in DOMAIN recv_queue : recv_queue'[k] = recv_queue[j]
      BY <3>2, <3>3
    <3> QED
      BY <2>1, <3>1, <3>3, <3>4, QueueShrinks
  <2>8. CASE UNCHANGED udpvars
    <3>1. \A k \in DOMAIN recv_queue' : \E j \in DOMAIN recv_queue : recv_queue'[k] = recv_queue[j]
      BY <2>8 DEF udpvars
    <3> QED
      BY <2>1, <2>2, <2>8, <3>1, QueueShrinks DEF udpvars
  <2> QED
    BY <2>3, <2>4, <2>5, <2>6, <2>7, <2>8 DEF UdpNext
<1> QED
  BY <1>1, <1>2, PTL DEF UdpSpec

-----------------------------------------------------------------------------
(* The theorems. *)

(* What the sender and the receiver hold keeps its type. *)
THEOREM UdpTypeCorrect == UdpSpec => []UdpTypeOK
<1>1. UdpInv => UdpTypeOK
  BY DEF UdpInv
<1> QED
  BY <1>1, UdpInvariance, PTL

(***************************************************************************)
(* Whatever the network loses, repeats and reorders, a message that comes  *)
(* out of the receiver is the one sent under its uuid (packet_update), if  *)
(* that uuid was used once and its size survives the count of packets.     *)
(***************************************************************************)
THEOREM IntactCorrect == UdpSpec => []Intact
<1>1. UdpInv => Intact
  BY DEF UdpInv
<1> QED
  BY <1>1, UdpInvariance, PTL

(***************************************************************************)
(* A message of which every packet has come in, in whatever copies and     *)
(* order, has come out: the copies of send_triple are of use.              *)
(***************************************************************************)
THEOREM LossToleratedCorrect == UdpSpec => []LossTolerated
<1>1. UdpInv => LossTolerated
  <2> SUFFICES ASSUME UdpInv, NEW u \in Ids, NEW m \in Message, Once(u, m),
                      \A p \in Packets(m, u) : arrivals[p] > 0
               PROVE  count[u] > 0
    BY DEF LossTolerated, Once
  <2>1. /\ KeptPart(u, m) /\ \A p \in Packets(m, u) : Accounted(u, p)
        /\ count[u] \in Nat
    BY DEF UdpInv, UdpTypeOK, Reassembly
  <2> SUFFICES ASSUME count[u] = 0 PROVE FALSE
    BY <2>1
  <2>2. \A p \in Packets(m, u) : p.order \in DOMAIN Kept(u)
    BY <2>1 DEF Accounted
  <2>3. ASSUME NEW i \in 0 .. NumPackets(Size[m]) - 1 PROVE i \in DOMAIN Kept(u)
    <3> DEFINE p == [uuid |-> u, order |-> i, number |-> NumPackets(Size[m]),
                     data |-> Piece(m, i)]
    <3>1. p \in Packets(m, u) /\ p.order = i
      BY DEF Packets, Piece
    <3> HIDE DEF p
    <3> QED
      BY <2>2, <3>1
  <2>4. 0 .. NumPackets(Size[m]) - 1 \subseteq DOMAIN Kept(u)
    BY <2>3
  <2> QED
    BY <2>1, <2>4 DEF KeptPart
<1> QED
  BY <1>1, UdpInvariance, PTL

(***************************************************************************)
(* No packet is used for two messages: one comes out for each arrival of   *)
(* each of its packets at most.                                            *)
(***************************************************************************)
THEOREM NoMoreThanArrivedCorrect == UdpSpec => []NoMoreThanArrived
<1>1. UdpInv => NoMoreThanArrived
  BY DEF UdpInv, Reassembly, Accounted, Once, NoMoreThanArrived
<1> QED
  BY <1>1, UdpInvariance, PTL
=============================================================================
