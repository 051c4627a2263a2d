------------------------------ MODULE Mailbox ------------------------------
(***************************************************************************)
(* _Subscriber of Modules/rossub/lua_rossub.cpp: ROS queues the messages of*)
(* a topic, a thread of the subscriber takes them from that queue and calls*)
(* OnRosMsg, and the Lua program polls with checkMsg and getMsg.  The two  *)
(* threads share _new and _newMsg; OnRosMsg and getMsg lock a mutex,       *)
(* checkMsg does not.  A message is copied in several parts.               *)
(***************************************************************************)
EXTENDS Integers, Sequences

CONSTANTS
  Parts,        \* number of parts a message is copied in
  QueueSize,    \* messages ROS keeps for the subscriber
  MaxMsg        \* bound: messages published

ASSUME MailboxAssumption ==
  /\ Parts \in Nat \ {0}
  /\ QueueSize \in Nat \ {0}
  /\ MaxMsg \in Nat

Msg == 1 .. MaxMsg
Part == 1 .. Parts
Whole(m) == [k \in Part |-> m]
NoCopy == [k \in Part |-> 0]

VARIABLES
  published,            \* number of the last message published
  queue,                \* the callback queue of ROS
  mutex,                \* who holds mtx_lock: "none", "queue" or "lua"
  _new, _newMsg,
  qpc, qk, msg,         \* the thread: where it is, part it copies, message
  lpc, lk, returnMsg,   \* the Lua program: the same
  got                   \* history: the last message got

thread == <<qpc, qk, msg>>
lua == <<lpc, lk, returnMsg, got>>
vars == <<published, queue, mutex, _new, _newMsg, qpc, qk, msg, lpc, lk, returnMsg, got>>

TypeOK ==
  /\ published \in 0 .. MaxMsg
  /\ queue \in Seq(Msg)
  /\ mutex \in {"none", "queue", "lua"}
  /\ _new \in BOOLEAN
  /\ _newMsg \in [Part -> Msg \cup {0}]
  /\ qpc \in {"wait", "flag", "copy", "unlock"}
  /\ qk \in Part
  /\ msg \in Msg \cup {0}
  /\ lpc \in {"check", "lock", "copy", "clear", "unlock"}
  /\ lk \in Part
  /\ returnMsg \in [Part -> Msg \cup {0}]
  /\ got \in [Part -> Msg \cup {0}]

Init ==
  /\ published = 0
  /\ queue = <<>>
  /\ mutex = "none"
  /\ _new = FALSE /\ _newMsg = NoCopy
  /\ qpc = "wait" /\ qk = 1 /\ msg = 0
  /\ lpc = "check" /\ lk = 1 /\ returnMsg = NoCopy
  /\ got = NoCopy

-----------------------------------------------------------------------------
(* The topic: a message that finds the queue full pushes out the oldest.   *)
Publish ==
  /\ published < MaxMsg
  /\ published' = published + 1
  /\ queue' = Append(IF Len(queue) = QueueSize THEN Tail(queue) ELSE queue, published')
  /\ UNCHANGED <<mutex, _new, _newMsg, thread, lua>>

(* callAvailable, and the lock of OnRosMsg. *)
LockQueue ==
  /\ qpc = "wait"
  /\ queue # <<>>
  /\ mutex = "none"
  /\ mutex' = "queue"
  /\ msg' = Head(queue)
  /\ queue' = Tail(queue)
  /\ qpc' = "flag"
  /\ UNCHANGED <<published, _new, _newMsg, qk, lua>>

(* Mutant: the flag is flipped. *)
SetFlagFlips ==
  /\ qpc = "flag"
  /\ _new' = ~_new
  /\ qpc' = "copy"
  /\ UNCHANGED <<published, queue, mutex, _newMsg, qk, msg, lua>>

(* _new = true. *)
SetFlag ==
  /\ qpc = "flag"
  /\ _new' = TRUE
  /\ qpc' = "copy"
  /\ UNCHANGED <<published, queue, mutex, _newMsg, qk, msg, lua>>

(* _newMsg = *msg, one part. *)
CopyIn ==
  /\ qpc = "copy"
  /\ _newMsg' = [_newMsg EXCEPT ![qk] = msg]
  /\ qk' = IF qk < Parts THEN qk + 1 ELSE 1
  /\ qpc' = IF qk < Parts THEN "copy" ELSE "unlock"
  /\ UNCHANGED <<published, queue, mutex, _new, msg, lua>>

UnlockQueue ==
  /\ qpc = "unlock"
  /\ mutex' = "none"
  /\ qpc' = "wait"
  /\ UNCHANGED <<published, queue, _new, _newMsg, qk, msg, lua>>

(* checkMsg, without the lock.  A poll that finds nothing, or still reads   *)
(* the old value of the flag, changes nothing.                              *)
Check ==
  /\ lpc = "check"
  /\ _new
  /\ lpc' = "lock"
  /\ UNCHANGED <<published, queue, mutex, _new, _newMsg, thread, lk, returnMsg, got>>

(* getMsg: the lock. *)
LockLua ==
  /\ lpc = "lock"
  /\ mutex = "none"
  /\ mutex' = "lua"
  /\ lpc' = "copy"
  /\ UNCHANGED <<published, queue, _new, _newMsg, thread, lk, returnMsg, got>>

(* Mutant: the mutex is released before the flag is cleared. *)
CopyOutUnlocks ==
  /\ lpc = "copy"
  /\ returnMsg' = [returnMsg EXCEPT ![lk] = _newMsg[lk]]
  /\ lk' = IF lk < Parts THEN lk + 1 ELSE 1
  /\ lpc' = IF lk < Parts THEN "copy" ELSE "clear"
  /\ mutex' = IF lk < Parts THEN mutex ELSE "none"
  /\ UNCHANGED <<published, queue, _new, _newMsg, thread, got>>

(* returnMsg = _newMsg, one part. *)
CopyOut ==
  /\ lpc = "copy"
  /\ returnMsg' = [returnMsg EXCEPT ![lk] = _newMsg[lk]]
  /\ lk' = IF lk < Parts THEN lk + 1 ELSE 1
  /\ lpc' = IF lk < Parts THEN "copy" ELSE "clear"
  /\ UNCHANGED <<published, queue, mutex, _new, _newMsg, thread, got>>

(* Mutant: the flag is not cleared. *)
ClearFlagNever ==
  /\ lpc = "clear"
  /\ got' = returnMsg
  /\ lpc' = "unlock"
  /\ UNCHANGED <<published, queue, mutex, _new, _newMsg, thread, lk, returnMsg>>

(* _new = false. *)
ClearFlag ==
  /\ lpc = "clear"
  /\ _new' = FALSE
  /\ got' = returnMsg
  /\ lpc' = "unlock"
  /\ UNCHANGED <<published, queue, mutex, _newMsg, thread, lk, returnMsg>>

UnlockLua ==
  /\ lpc = "unlock"
  /\ mutex' = "none"
  /\ lpc' = "check"
  /\ UNCHANGED <<published, queue, _new, _newMsg, thread, lk, returnMsg, got>>

Queue == LockQueue \/ SetFlag \/ CopyIn \/ UnlockQueue
Lua == Check \/ LockLua \/ CopyOut \/ ClearFlag \/ UnlockLua

Next == Publish \/ Queue \/ Lua

Spec == Init /\ [][Next]_vars

(* The thread loops for as long as ROS is up, and the program polls. *)
FairSpec == Spec /\ WF_vars(Queue) /\ WF_vars(Lua)

-----------------------------------------------------------------------------
(* Properties. *)

(* The message that waits in the mailbox. *)
Slot ==
  IF qpc \in {"copy", "unlock"} THEN Whole(msg)
  ELSE IF _new THEN _newMsg ELSE NoCopy

(***************************************************************************)
(* The mailbox is the register of LatestValue.  A message is put with the  *)
(* flag of OnRosMsg and taken when getMsg clears the flag, although its    *)
(* parts are copied before and after, and checkMsg looks without the lock  *)
(* (lua_rossub.cpp:21-35).                                                 *)
(***************************************************************************)
Register == INSTANCE LatestValue WITH
  Value <- {Whole(m) : m \in Msg},
  Empty <- NoCopy,
  slot <- Slot,
  taken <- got

IsRegister == Register!Spec

(* The number of a message that is whole. *)
Number(copy) == copy[1]

(***************************************************************************)
(* The messages got are whole, and each one is newer than the one before:  *)
(* none is got twice and none after a newer one.                           *)
(***************************************************************************)
Newer ==
  [][got' # got => /\ got' = Whole(Number(got'))
                   /\ Number(got') > Number(got)]_vars

(* checkMsg promises getMsg a message that was not got yet. *)
CheckKept == lpc \in {"lock", "copy", "clear"} => _new

(***************************************************************************)
(* The last message published is never lost: it is in the queue, in the    *)
(* hands of the thread, in the mailbox with its flag, or it was got.  The  *)
(* queue drops older ones, and getMsg clears the flag of none but the one  *)
(* it copied (lua_rossub.cpp:12, 21-35).                                   *)
(***************************************************************************)
LastOnItsWay ==
  \/ \E k \in DOMAIN queue : queue[k] = published
  \/ qpc # "wait" /\ msg = published
  \/ _new /\ _newMsg = Whole(published)
  \/ got = Whole(published)

(***************************************************************************)
(* The last message of all is got in the end, however many are lost in the *)
(* queue or overwritten on the way.                                        *)
(***************************************************************************)
LastGot == published = MaxMsg ~> got = Whole(MaxMsg)
=============================================================================
