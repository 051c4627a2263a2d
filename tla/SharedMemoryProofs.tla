------------------------- MODULE SharedMemoryProofs -------------------------
(***************************************************************************)
(* Proofs about the shared memory, for any number of processes, arrays,    *)
(* places, configurations and changes of lengths.                          *)
(***************************************************************************)
EXTENDS SharedMemory, TLAPS

(***************************************************************************)
(* The strengthening.  No two arrays share a place; while the segment is   *)
(* steady every array has its declared length; of each process its place   *)
(* in the code says which keys exist then, what its local pointer is and   *)
(* which pointers it has taken; and a lone process has the keys that its   *)
(* loop has passed.                                                        *)
(***************************************************************************)
Apart ==
  \A k, l \in Key : k # l /\ index[k] # None /\ index[l] # None => index[k].at # index[l].at

Fit == steady => \A k \in Key : index[k] = None \/ Exists(k)

SetCall == {"find", "construct", "destroy", "write"}
InCall == SetCall \cup {"get"}

Call(p) ==
  /\ pc[p] \in InCall => key[p] \in Key
  /\ pc[p] \in SetCall => nval[p] \in Length
  /\ pc[p] \notin InCall => key[p] = None
  /\ default[p] => pc[p] \in SetCall /\ nval[p] = layout[key[p]]

(* What steady memory means to a process. *)
Sound(p) ==
  /\ pc[p] # "destroy"
  /\ pc[p] \in SetCall => nval[p] = layout[key[p]]
  /\ pc[p] = "construct" => default[p]
  /\ pc[p] \in {"write", "get"} => Exists(key[p]) /\ pr[p] = Found(key[p])
  /\ pc[p] = "keys" \/ default[p] =>
       \A k \in Key : k \notin todo[p] /\ k # key[p] => Exists(k)
  /\ pc[p] = "pointers" \/ Started(p) => \A k \in Key : Exists(k)
  /\ pc[p] = "pointers" => \A k \in Key : k \notin todo[p] => ptr[p][k] = Found(k)
  /\ Started(p) => \A k \in Key : ptr[p][k] = Found(k)

PInv(p) == Call(p) /\ (steady => Sound(p))

(* A lone process has the keys its loop has passed. *)
Alone(p) ==
  /\ pc[p] = "keys" \/ default[p]
  /\ \A q \in Process : q # p => ~Alive(q)
  /\ \A k \in Key : k \notin todo[p] /\ k # key[p] => Exists(k)
  /\ pc[p] = "destroy" => index[key[p]] # None /\ pr[p] = Found(key[p])
  /\ pc[p] = "construct" => index[key[p]] = None
  /\ pc[p] = "write" => Exists(key[p])

Lone == \A p \in Process : lone = p => Alone(p)

IInv == TypeOK /\ Apart /\ Fit /\ Lone /\ \A p \in Process : PInv(p)

USE SegmentAssumption
-----------------------------------------------------------------------------
(* The variables of all processes but p stay. *)
OnlyBy(p) ==
  \A q \in Process \ {p} :
    /\ pc'[q] = pc[q] /\ todo'[q] = todo[q] /\ key'[q] = key[q] /\ nval'[q] = nval[q]
    /\ pr'[q] = pr[q] /\ default'[q] = default[q] /\ ptr'[q] = ptr[q]

(* A process whose own variables stay keeps its part of the invariant, as  *)
(* long as the arrays that exist in steady memory stay in place.           *)
LEMMA Bystander ==
  ASSUME NEW p \in Process, NEW q \in Process, q # p, TypeOK, PInv(q), OnlyBy(p),
         layout' = layout, steady' => steady,
         steady' => \A k \in Key : Exists(k) => index'[k] = index[k]
  PROVE  PInv(q)'
<1>0. /\ pc'[q] = pc[q] /\ todo'[q] = todo[q] /\ key'[q] = key[q] /\ nval'[q] = nval[q]
      /\ pr'[q] = pr[q] /\ default'[q] = default[q] /\ ptr'[q] = ptr[q]
  BY DEF OnlyBy
<1>1. Call(q)'
  BY <1>0 DEF Call, PInv, InCall, SetCall
<1>2. ASSUME steady' PROVE Sound(q)'
  <2>1. Sound(q)
    BY <1>2 DEF PInv
  <2>2. \A k \in Key : Exists(k) => Exists(k)' /\ Found(k)' = Found(k)
    BY <1>2 DEF Exists, Found
  <2>3. pc[q] \in {"write", "get"} => key[q] \in Key
    BY DEF PInv, Call, InCall, SetCall
  <2>4. (Started(q) <=> Started(q)')
    BY <1>0 DEF Started, Alive
  <2>5. QED
    BY <1>0, <2>1, <2>2, <2>3, <2>4 DEF Sound, SetCall
<1>3. QED
  BY <1>1, <1>2 DEF PInv

(* A step of p that leaves the segment alone has only p's part to show. *)
LEMMA LocalStep ==
  ASSUME NEW p \in Process, IInv, TypeOK', OnlyBy(p), PInv(p)', Alive(p),
         UNCHANGED <<index, layout, lone, steady>>,
         lone = p => Alone(p)'
  PROVE  IInv'
<1>1. Apart' /\ Fit'
  BY DEF IInv, Apart, Fit, Exists
<1>2. Lone'
  <2> SUFFICES ASSUME NEW q \in Process, lone = q PROVE Alone(q)'
    BY DEF Lone
  <2>1. Alone(q)
    BY DEF IInv, Lone
  <2>2. q = p
    BY <2>1 DEF Alone
  <2>3. QED
    BY <2>2
<1>3. ASSUME NEW q \in Process PROVE PInv(q)'
  <2>1. CASE q = p
    BY <2>1
  <2>2. CASE q # p
    BY <2>2, Bystander DEF IInv
  <2>3. QED
    BY <2>1, <2>2
<1>4. QED
  BY <1>1, <1>2, <1>3 DEF IInv

(* Nobody else is lone while p lives. *)
LEMMA LoneIs ==
  ASSUME NEW p \in Process, IInv, Alive(p), lone # None
  PROVE  lone = p
<1>1. lone \in Process
  BY DEF IInv, TypeOK
<1>2. Alone(lone)
  BY <1>1 DEF IInv, Lone
<1>3. QED
  BY <1>1, <1>2 DEF Alone
-----------------------------------------------------------------------------
LEMMA TypeStart ==
  ASSUME TypeOK, NEW p \in Process, StartStep(p)
  PROVE  TypeOK'
<1>1. CASE Start(p)
  BY <1>1 DEF Start, TypeOK, Step
<1>2. CASE KeysDone(p)
  BY <1>2 DEF KeysDone, TypeOK, Step
<1>3. CASE PointersDone(p)
  BY <1>3 DEF PointersDone, TypeOK, Step, history
<1>4. ASSUME NEW k \in Key, KeyExists(p, k) PROVE TypeOK'
  BY <1>4 DEF KeyExists, TypeOK, Step, history
<1>5. ASSUME NEW k \in Key, KeyMissing(p, k) PROVE TypeOK'
  <2>1. layout[k] \in Length
    BY DEF TypeOK
  <2>2. QED
    BY <1>5, <2>1 DEF KeyMissing, TypeOK, Step, history
<1>6. ASSUME NEW k \in Key, TakePointer(p, k) PROVE TypeOK'
  <2>1. Found(k) \in Address \cup {None}
    BY DEF Found, TypeOK, Block
  <2>2. QED
    BY <1>6, <2>1 DEF TakePointer, TypeOK, Step, history
<1>7. QED
  BY <1>1, <1>2, <1>3, <1>4, <1>5, <1>6 DEF StartStep

LEMMA TypeEnd ==
  ASSUME TypeOK, NEW p \in Process, NEW how \in {"off", "raised"}, End(p, how)
  PROVE  TypeOK'
BY DEF End, TypeOK, Step

LEMMA TypeSet ==
  ASSUME NEW p \in Process, TypeOK, PInv(p), SetStep(p)
  PROVE  TypeOK'
<1>1. CASE Find(p)
  <2>1. Found(key[p]) \in Address \cup {None}
    BY <1>1 DEF Find, PInv, Call, InCall, SetCall, Found, TypeOK, Block
  <2>2. QED
    BY <1>1, <2>1 DEF Find, TypeOK, Step, history
<1>2. CASE DestroyPtr(p)
  BY <1>2 DEF DestroyPtr, TypeOK, Step, history
<1>3. CASE Construct(p)
  <2>1. PICK a \in Address :
          /\ index' = [index EXCEPT ![key[p]] = [at |-> a, n |-> nval[p]]]
          /\ pr' = [pr EXCEPT ![p] = a]
    BY <1>3 DEF Construct
  <2>2. [at |-> a, n |-> nval[p]] \in Block
    BY <1>3 DEF Construct, Block, PInv, Call, SetCall
  <2>3. index' \in [Key -> Block \cup {None}]
    BY <2>1, <2>2 DEF TypeOK
  <2>4. pr' \in [Process -> Address \cup {None}]
    BY <2>1 DEF TypeOK
  <2>5. QED
    BY <1>3, <2>3, <2>4 DEF Construct, TypeOK, Step, history
<1>4. CASE ConstructRaises(p)
  BY <1>4, TypeEnd DEF ConstructRaises
<1>5. CASE Write(p)
  BY <1>5 DEF Write, Return, TypeOK, Step, history
<1>6. QED
  BY <1>1, <1>2, <1>3, <1>4, <1>5 DEF SetStep

LEMMA TypeWork ==
  ASSUME TypeOK, NEW p \in Process, WorkStep(p)
  PROVE  TypeOK'
<1>1. CASE GetReturns(p)
  BY <1>1 DEF GetReturns, Return, TypeOK, Step, history
<1>2. CASE Die(p)
  BY <1>2, TypeEnd DEF Die
<1>3. ASSUME NEW k \in Key, NEW n \in {layout[k]} \cup OtherLengths[k], Set(p, k, n)
      PROVE  TypeOK'
  <2>1. n \in Length
    BY DEF TypeOK
  <2>2. changes' \in 0 .. MaxChanges
    BY <1>3 DEF Set, TypeOK
  <2>3. QED
    BY <1>3, <2>1, <2>2 DEF Set, TypeOK, Step
<1>4. ASSUME NEW k \in Key, Get(p, k) PROVE TypeOK'
  <2>1. Found(k) \in Address \cup {None}
    BY DEF Found, TypeOK, Block
  <2>2. QED
    BY <1>4, <2>1 DEF Get, TypeOK, Step, history
<1>5. QED
  BY <1>1, <1>2, <1>3, <1>4 DEF WorkStep
-----------------------------------------------------------------------------
(* The start of a process. *)
LEMMA StartKeeps ==
  ASSUME NEW p \in Process, IInv, StartStep(p)
  PROVE  IInv'
<1>0. TypeOK /\ PInv(p) /\ TypeOK'
  BY TypeStart DEF IInv
<1>1. CASE Start(p)
  <2>0. /\ OnlyBy(p)
        /\ UNCHANGED <<index, layout, steady, key, nval, default>>
        /\ pc'[p] = "keys" /\ todo'[p] = Key
    BY <1>0, <1>1 DEF Start, OnlyBy, TypeOK
  <2>1. PInv(p)'
    <3>1. key[p] = None /\ ~default[p]
      BY <1>0, <1>1 DEF Start, PInv, Call, InCall, SetCall, Alive
    <3>2. Call(p)'
      BY <2>0, <3>1 DEF Call, InCall, SetCall
    <3>3. Sound(p)'
      BY <2>0, <3>1 DEF Sound, SetCall, Started
    <3>4. QED
      BY <3>2, <3>3 DEF PInv
  <2>2. ASSUME NEW q \in Process PROVE PInv(q)'
    <3>1. CASE q = p
      BY <3>1, <2>1
    <3>2. CASE q # p
      BY <2>0, <3>2, Bystander DEF IInv
    <3>3. QED
      BY <3>1, <3>2
  <2>3. Apart' /\ Fit'
    BY <2>0 DEF IInv, Apart, Fit, Exists
  <2>4. Lone'
    <3>1. lone' # None => lone' = p /\ \A q \in Process : ~Alive(q)
      BY <1>1 DEF Start
    <3>2. ASSUME lone' # None PROVE Alone(p)'
      BY <2>0, <3>1, <3>2 DEF Alone, Alive, OnlyBy
    <3>3. QED
      BY <3>1, <3>2 DEF Lone
  <2>5. QED
    BY <1>0, <2>2, <2>3, <2>4 DEF IInv
<1>2. CASE KeysDone(p)
  <2>0. /\ OnlyBy(p)
        /\ UNCHANGED <<index, layout, key, nval, default, ptr, pr>>
        /\ pc[p] = "keys" /\ pc'[p] = "pointers" /\ todo[p] = {} /\ todo'[p] = Key
        /\ steady' = (steady \/ lone = p)
        /\ lone' = IF lone = p THEN None ELSE lone
        /\ Alive(p)
    BY <1>0, <1>2 DEF KeysDone, OnlyBy, TypeOK, Alive
  <2>1. key[p] = None /\ ~default[p]
    BY <1>0, <2>0 DEF PInv, Call, InCall, SetCall
  <2>2. ASSUME steady' PROVE \A k \in Key : Exists(k)
    <3>1. CASE steady
      BY <1>0, <2>0, <2>1, <3>1 DEF PInv, Sound
    <3>2. CASE lone = p
      BY <2>0, <2>1, <3>2 DEF IInv, Lone, Alone
    <3>3. QED
      BY <2>0, <2>2, <3>1, <3>2
  <2>3. PInv(p)'
    <3>1. Call(p)'
      BY <2>0, <2>1 DEF Call, InCall, SetCall
    <3>2. ASSUME steady' PROVE Sound(p)'
      <4>1. \A k \in Key : Exists(k)'
        BY <2>0, <2>2, <3>2 DEF Exists
      <4>2. QED
        BY <2>0, <2>1, <4>1 DEF Sound, SetCall, Started
    <3>3. QED
      BY <3>1, <3>2 DEF PInv
  <2>4. ASSUME NEW q \in Process, q # p PROVE PInv(q)'
    <3>1. CASE lone = p
      <4>1. ~Alive(q) /\ Call(q)
        BY <2>4, <3>1 DEF IInv, Lone, Alone, PInv
      <4>2. pc'[q] \in {"off", "raised"} /\ ~default'[q] /\ key'[q] = key[q]
        BY <2>0, <2>4, <4>1 DEF OnlyBy, Alive, Call, SetCall
      <4>3. Call(q)'
        BY <2>0, <4>1, <4>2, <2>4 DEF Call, OnlyBy, InCall, SetCall
      <4>4. Sound(q)'
        BY <4>2 DEF Sound, SetCall, Started, Alive
      <4>5. QED
        BY <4>3, <4>4 DEF PInv
    <3>2. CASE lone # p
      BY <1>0, <2>0, <2>4, <3>2, Bystander DEF IInv
    <3>3. QED
      BY <3>1, <3>2
  <2>5. Apart' /\ Fit'
    BY <2>0, <2>2 DEF IInv, Apart, Fit, Exists
  <2>6. Lone'
    <3>1. lone' = None
      BY <2>0, LoneIs
    <3>2. QED
      BY <3>1 DEF Lone
  <2>7. QED
    BY <1>0, <2>3, <2>4, <2>5, <2>6 DEF IInv
<1>3. CASE PointersDone(p)
  <2>1. PInv(p)'
    BY <1>0, <1>3 DEF PointersDone, TypeOK, PInv, Call, InCall, SetCall, Sound, Alive,
                      Started, Exists, Found, history
  <2>2. lone # p
    BY <1>0, <1>3 DEF PointersDone, IInv, Lone, Alone, PInv, Call, SetCall
  <2>3. QED
    BY <1>0, <1>3, <2>1, <2>2, LocalStep DEF PointersDone, OnlyBy, Alive, TypeOK, history
<1>4. ASSUME NEW k \in Key, KeyExists(p, k) PROVE IInv'
  <2>0. /\ OnlyBy(p) /\ Alive(p)
        /\ UNCHANGED <<index, layout, pc, key, nval, default, ptr, pr, lone, steady>>
        /\ todo'[p] = todo[p] \ {k} /\ Exists(k) /\ pc[p] = "keys"
    BY <1>0, <1>4 DEF KeyExists, OnlyBy, TypeOK, Alive, history
  <2>1. PInv(p)'
    BY <1>0, <2>0 DEF PInv, Call, InCall, SetCall, Sound, Alive, Started, Exists, Found
  <2>2. lone = p => Alone(p)'
    BY <2>0 DEF IInv, Lone, Alone, Exists, Alive, Found
  <2>3. QED
    BY <1>0, <2>0, <2>1, <2>2, LocalStep
<1>5. ASSUME NEW k \in Key, KeyMissing(p, k) PROVE IInv'
  <2>0. /\ OnlyBy(p) /\ Alive(p)
        /\ UNCHANGED <<index, layout, ptr, pr, lone, steady>>
        /\ todo'[p] = todo[p] \ {k} /\ pc[p] = "keys" /\ pc'[p] = "find"
        /\ key'[p] = k /\ nval'[p] = layout[k] /\ default'[p] = TRUE
        /\ layout[k] \in Length
    BY <1>0, <1>5 DEF KeyMissing, OnlyBy, TypeOK, Alive, history
  <2>1. key[p] = None /\ ~default[p]
    BY <1>0, <2>0 DEF PInv, Call, InCall, SetCall
  <2>2. PInv(p)'
    <3>1. Call(p)'
      BY <2>0 DEF Call, InCall, SetCall
    <3>2. ASSUME steady PROVE Sound(p)'
      BY <1>0, <2>0, <2>1, <3>2 DEF PInv, Sound, SetCall, Started, Exists
    <3>3. QED
      BY <2>0, <3>1, <3>2 DEF PInv
  <2>3. lone = p => Alone(p)'
    BY <2>0, <2>1 DEF IInv, Lone, Alone, Exists, Alive, OnlyBy
  <2>4. QED
    BY <1>0, <2>0, <2>2, <2>3, LocalStep
<1>6. ASSUME NEW k \in Key, TakePointer(p, k) PROVE IInv'
  <2>0. /\ OnlyBy(p) /\ Alive(p)
        /\ UNCHANGED <<index, layout, pc, key, nval, default, pr, lone, steady>>
        /\ todo'[p] = todo[p] \ {k} /\ pc[p] = "pointers"
        /\ ptr'[p] = [ptr[p] EXCEPT ![k] = Found(k)]
    BY <1>0, <1>6 DEF TakePointer, OnlyBy, TypeOK, Alive, history
  <2>1. PInv(p)'
    <3>1. Call(p)'
      BY <1>0, <2>0 DEF PInv, Call
    <3>2. ptr'[p][k] = Found(k) /\ \A l \in Key : l # k => ptr'[p][l] = ptr[p][l]
      BY <1>0, <2>0 DEF TypeOK
    <3>3. ASSUME steady PROVE Sound(p)'
      BY <1>0, <2>0, <3>2, <3>3 DEF PInv, Sound, SetCall, Started, Exists, Found
    <3>4. QED
      BY <2>0, <3>1, <3>3 DEF PInv
  <2>2. lone # p
    BY <1>0, <2>0 DEF IInv, Lone, Alone, PInv, Call, SetCall
  <2>3. QED
    BY <1>0, <2>0, <2>1, <2>2, LocalStep
<1>7. QED
  BY <1>1, <1>2, <1>3, <1>4, <1>5, <1>6 DEF StartStep

(* A process that ends has no part left to keep. *)
LEMMA EndKeeps ==
  ASSUME NEW p \in Process, IInv, Alive(p), NEW how \in {"off", "raised"}, End(p, how)
  PROVE  IInv'
<1>0. TypeOK /\ TypeOK'
  BY TypeEnd DEF IInv
<1>1. /\ OnlyBy(p) /\ UNCHANGED <<index, layout, steady>>
      /\ pc'[p] = how /\ key'[p] = None /\ ~default'[p]
      /\ lone' = IF lone = p THEN None ELSE lone
  BY <1>0 DEF End, OnlyBy, TypeOK
<1>2. PInv(p)'
  BY <1>1 DEF PInv, Call, InCall, SetCall, Sound, Alive, Started
<1>3. ASSUME NEW q \in Process, q # p PROVE PInv(q)'
  BY <1>0, <1>1, <1>3, Bystander DEF IInv
<1>4. Apart' /\ Fit'
  BY <1>1 DEF IInv, Apart, Fit, Exists
<1>5. lone' = None
  BY <1>1, LoneIs
<1>6. QED
  BY <1>0, <1>2, <1>3, <1>4, <1>5 DEF IInv, Lone

(* A process at work, and its end. *)
LEMMA WorkKeeps ==
  ASSUME NEW p \in Process, IInv, WorkStep(p)
  PROVE  IInv'
<1>0. TypeOK /\ PInv(p) /\ TypeOK'
  BY TypeWork DEF IInv
<1>1. CASE GetReturns(p)
  <2>0. /\ OnlyBy(p) /\ Alive(p)
        /\ UNCHANGED <<index, layout, todo, ptr, lone, steady>>
        /\ pc[p] = "get" /\ pc'[p] = "ready" /\ key'[p] = None /\ ~default'[p]
    BY <1>0, <1>1 DEF GetReturns, Return, OnlyBy, Alive, TypeOK, history
  <2>1. ~default[p]
    BY <1>0, <2>0 DEF PInv, Call, SetCall
  <2>2. PInv(p)'
    BY <1>0, <2>0, <2>1 DEF PInv, Call, InCall, SetCall, Sound, Alive, Started, Exists, Found
  <2>3. lone # p
    BY <2>0, <2>1 DEF IInv, Lone, Alone
  <2>4. QED
    BY <1>0, <2>0, <2>2, <2>3, LocalStep
<1>2. CASE Die(p)
  BY <1>2, EndKeeps DEF Die
<1>3. ASSUME NEW k \in Key, NEW n \in {layout[k]} \cup OtherLengths[k], Set(p, k, n)
      PROVE  IInv'
  <2>0. /\ OnlyBy(p) /\ Alive(p)
        /\ UNCHANGED <<index, layout, todo, ptr, pr, lone>>
        /\ pc[p] = "ready" /\ pc'[p] = "find" /\ key'[p] = k /\ nval'[p] = n
        /\ ~default'[p]
    BY <1>0, <1>3 DEF Set, OnlyBy, Alive, TypeOK
  <2> steady' => steady /\ n = layout[k]
    BY <1>3 DEF Set
  <2> n \in Length
    BY <1>0 DEF TypeOK
  <2>1. ~default[p]
    BY <1>0, <2>0 DEF PInv, Call, SetCall
  <2>2. PInv(p)'
    BY <1>0, <2>0, <2>1 DEF PInv, Call, InCall, SetCall, Sound, Alive, Started, Exists, Found
  <2>3. ASSUME NEW q \in Process, q # p PROVE PInv(q)'
    BY <1>0, <2>0, <2>3, Bystander DEF IInv
  <2>4. lone = None
    BY <2>0, <2>1, LoneIs DEF IInv, Lone, Alone
  <2>5. Apart' /\ Fit' /\ Lone'
    BY <2>0, <2>4 DEF IInv, Apart, Fit, Lone, Exists
  <2>6. QED
    BY <1>0, <2>2, <2>3, <2>5 DEF IInv
<1>4. ASSUME NEW k \in Key, Get(p, k) PROVE IInv'
  <2>0. /\ OnlyBy(p) /\ Alive(p)
        /\ UNCHANGED <<index, layout, todo, ptr, lone, steady, default>>
        /\ pc[p] = "ready" /\ pc'[p] = "get" /\ key'[p] = k /\ pr'[p] = Found(k)
    BY <1>0, <1>4 DEF Get, OnlyBy, Alive, TypeOK, history
  <2>1. ~default[p]
    BY <1>0, <2>0 DEF PInv, Call, SetCall
  <2>2. PInv(p)'
    BY <1>0, <2>0, <2>1 DEF PInv, Call, InCall, SetCall, Sound, Alive, Started, Exists, Found
  <2>3. lone # p
    BY <2>0, <2>1 DEF IInv, Lone, Alone
  <2>4. QED
    BY <1>0, <2>0, <2>2, <2>3, LocalStep
<1>5. QED
  BY <1>1, <1>2, <1>3, <1>4 DEF WorkStep
-----------------------------------------------------------------------------
(* lua_shm_set. *)
LEMMA SetKeeps ==
  ASSUME NEW p \in Process, IInv, SetStep(p)
  PROVE  IInv'
<1>0. TypeOK /\ PInv(p) /\ TypeOK'
  BY TypeSet DEF IInv
<1>1. CASE Find(p)
  <2>0. /\ OnlyBy(p) /\ Alive(p)
        /\ UNCHANGED <<index, layout, todo, key, nval, ptr, lone, steady, default>>
        /\ pc[p] = "find" /\ pr'[p] = Found(key[p])
        /\ pc'[p] = IF index[key[p]] = None THEN "construct"
                     ELSE IF index[key[p]].n = nval[p] THEN "write" ELSE "destroy"
    BY <1>0, <1>1 DEF Find, OnlyBy, Alive, TypeOK, history
  <2>1. key[p] \in Key
    BY <1>0, <2>0 DEF PInv, Call, InCall, SetCall
  <2>2. PInv(p)'
    <3>1. Call(p)'
      BY <1>0, <2>0, <2>1 DEF PInv, Call, InCall, SetCall
    <3>2. ASSUME steady PROVE Sound(p)'
      <4>1. Sound(p) /\ (index[key[p]] = None \/ Exists(key[p]))
        BY <1>0, <2>1, <3>2 DEF PInv, IInv, Fit
      <4>2. index[key[p]] = None => default[p]
        BY <2>0, <2>1, <4>1 DEF Sound, Started, Exists
      <4>3. QED
        BY <2>0, <2>1, <4>1, <4>2 DEF Sound, SetCall, Started, Alive, Exists, Found
    <3>3. QED
      BY <2>0, <3>1, <3>2 DEF PInv
  <2>3. ASSUME lone = p PROVE Alone(p)'
    <3>1. Alone(p) /\ default[p]
      BY <2>0, <2>3 DEF IInv, Lone, Alone
    <3>2. nval[p] = layout[key[p]]
      BY <1>0, <3>1 DEF PInv, Call
    <3>3. QED
      BY <2>0, <2>1, <3>1, <3>2 DEF Alone, Exists, Found, Alive, OnlyBy
  <2>4. QED
    BY <1>0, <2>0, <2>2, <2>3, LocalStep
<1>2. CASE DestroyPtr(p)
  <2>0. /\ OnlyBy(p) /\ Alive(p)
        /\ UNCHANGED <<layout, todo, key, nval, pr, ptr, lone, steady, default>>
        /\ pc[p] = "destroy" /\ pc'[p] = "construct"
    BY <1>0, <1>2 DEF DestroyPtr, OnlyBy, Alive, TypeOK, history
  <2>1. key[p] \in Key /\ ~steady
    BY <1>0, <2>0 DEF PInv, Call, InCall, SetCall, Sound
  <2>2. \A k \in Key : index'[k] \in {index[k], None}
    BY <1>0, <1>2, <2>1 DEF DestroyPtr, TypeOK
  <2>3. Apart' /\ Fit'
    BY <2>0, <2>1, <2>2 DEF IInv, Apart, Fit
  <2>4. PInv(p)'
    BY <1>0, <2>0, <2>1 DEF PInv, Call, InCall, SetCall
  <2>5. ASSUME NEW q \in Process, q # p PROVE PInv(q)'
    BY <1>0, <2>0, <2>1, <2>5, Bystander DEF IInv
  <2>6. ASSUME lone = p PROVE Alone(p)'
    <3>1. Alone(p) /\ index[key[p]] # None /\ pr[p] = Found(key[p])
      BY <2>0, <2>6 DEF IInv, Lone, Alone
    <3>2. \A k \in Key : Found(k) = pr[p] => k = key[p]
      <4> SUFFICES ASSUME NEW k \in Key, Found(k) = pr[p], k # key[p] PROVE FALSE
        OBVIOUS
      <4>1. pr[p] = index[key[p]].at /\ pr[p] # None
        BY <1>0, <2>1, <3>1 DEF Found, TypeOK, Block
      <4>2. index[k] # None /\ index[k].at = index[key[p]].at
        BY <4>1 DEF Found
      <4>3. QED
        BY <2>1, <3>1, <4>2 DEF IInv, Apart
    <3>3. index' = [index EXCEPT ![key[p]] = None]
      BY <1>2, <2>1, <3>1, <3>2 DEF DestroyPtr
    <3>4. index'[key[p]] = None /\ \A k \in Key : k # key[p] => index'[k] = index[k]
      BY <1>0, <2>1, <3>3 DEF TypeOK
    <3>5. default[p]
      BY <2>0, <3>1 DEF Alone
    <3>6. QED
      BY <2>0, <3>1, <3>4, <3>5 DEF Alone, Exists, Alive, OnlyBy
  <2>7. Lone'
    BY <2>0, <2>6, LoneIs DEF Lone
  <2>8. QED
    BY <1>0, <2>3, <2>4, <2>5, <2>7 DEF IInv
<1>3. CASE Construct(p)
  <2>0. /\ OnlyBy(p) /\ Alive(p)
        /\ UNCHANGED <<layout, todo, key, nval, ptr, lone, steady, default>>
        /\ pc[p] = "construct" /\ pc'[p] = "write" /\ index[key[p]] = None
    BY <1>0, <1>3 DEF Construct, OnlyBy, Alive, TypeOK, history
  <2>1. key[p] \in Key /\ nval[p] \in Length
    BY <1>0, <2>0 DEF PInv, Call, InCall, SetCall
  <2>2. PICK a \in Address :
          /\ \A k \in Key : Found(k) # a
          /\ index' = [index EXCEPT ![key[p]] = [at |-> a, n |-> nval[p]]]
          /\ pr' = [pr EXCEPT ![p] = a]
    BY <1>3 DEF Construct
  <2> DEFINE new == [at |-> a, n |-> nval[p]]
  <2>3. new \in Block /\ new # None /\ new.at = a /\ new.n = nval[p]
    BY <2>1 DEF Block
  <2>4. /\ index'[key[p]] = new
        /\ \A k \in Key : k # key[p] => index'[k] = index[k]
        /\ pr'[p] = a
    BY <1>0, <2>1, <2>2 DEF TypeOK
  <2> HIDE DEF new
  <2>5. \A k \in Key : Exists(k) => index'[k] = index[k]
    BY <2>0, <2>4 DEF Exists
  <2>6. Apart'
    <3>1. \A k \in Key : index[k] # None => index[k].at # a
      BY <2>2 DEF Found
    <3>2. QED
      BY <2>3, <2>4, <3>1 DEF IInv, Apart
  <2>7. Fit'
    <3>1. steady => nval[p] = layout[key[p]]
      BY <1>0, <2>0 DEF PInv, Sound, SetCall
    <3>2. QED
      BY <2>0, <2>3, <2>4, <3>1 DEF IInv, Fit, Exists
  <2>8. \A k \in Key : Exists(k) => Exists(k)'
    BY <2>0, <2>5 DEF Exists
  <2>9. nval[p] = layout[key[p]] => Exists(key[p])'
    BY <2>0, <2>3, <2>4 DEF Exists
  <2>10. PInv(p)'
    <3>1. Call(p)'
      BY <1>0, <2>0 DEF PInv, Call, InCall, SetCall
    <3>2. ASSUME steady PROVE Sound(p)'
      <4>1. Sound(p) /\ default[p] /\ nval[p] = layout[key[p]]
        BY <1>0, <2>0, <3>2 DEF PInv, Sound, SetCall
      <4>2. Exists(key[p])' /\ pr'[p] = Found(key[p])'
        BY <2>0, <2>3, <2>4, <2>9, <4>1 DEF Found
      <4>3. QED
        BY <2>0, <2>8, <4>1, <4>2 DEF Sound, SetCall, Started
    <3>3. QED
      BY <2>0, <3>1, <3>2 DEF PInv
  <2>11. ASSUME NEW q \in Process, q # p PROVE PInv(q)'
    BY <1>0, <2>0, <2>5, <2>11, Bystander DEF IInv
  <2>12. ASSUME lone = p PROVE Alone(p)'
    <3>1. Alone(p) /\ default[p]
      BY <2>0, <2>12 DEF IInv, Lone, Alone
    <3>2. nval[p] = layout[key[p]]
      BY <1>0, <3>1 DEF PInv, Call
    <3>3. QED
      BY <2>0, <2>8, <2>9, <3>1, <3>2 DEF Alone, Alive, OnlyBy
  <2>13. Lone'
    BY <2>0, <2>12, LoneIs DEF Lone
  <2>14. QED
    BY <1>0, <2>6, <2>7, <2>10, <2>11, <2>13 DEF IInv
<1>4. CASE ConstructRaises(p)
  BY <1>4, EndKeeps DEF ConstructRaises, Alive
<1>5. CASE Write(p)
  <2>0. /\ OnlyBy(p) /\ Alive(p)
        /\ UNCHANGED <<index, layout, todo, ptr, lone, steady>>
        /\ pc[p] = "write" /\ pc'[p] = IF default[p] THEN "keys" ELSE "ready"
        /\ key'[p] = None /\ ~default'[p]
    BY <1>0, <1>5 DEF Write, Return, OnlyBy, Alive, TypeOK, history
  <2>1. PInv(p)'
    <3>1. Call(p)'
      BY <2>0 DEF Call, InCall, SetCall
    <3>2. ASSUME steady PROVE Sound(p)'
      <4>1. Sound(p)
        BY <1>0, <3>2 DEF PInv
      <4>2. QED
        BY <2>0, <4>1 DEF Sound, SetCall, Started, Alive, Exists, Found
    <3>3. QED
      BY <2>0, <3>1, <3>2 DEF PInv
  <2>2. lone = p => Alone(p)'
    BY <2>0 DEF IInv, Lone, Alone, Exists, Alive, OnlyBy
  <2>3. QED
    BY <1>0, <2>0, <2>1, <2>2, LocalStep
<1>6. QED
  BY <1>1, <1>2, <1>3, <1>4, <1>5 DEF SetStep
-----------------------------------------------------------------------------
LEMMA Inductive == Spec => []IInv
<1>1. Init => IInv
  <2>1. Init => TypeOK
    BY DEF Init, TypeOK, Step
  <2>2. Init => Apart /\ Fit /\ Lone
    BY DEF Init, Apart, Fit, Lone
  <2>3. Init => \A p \in Process : PInv(p)
    BY DEF Init, PInv, Call, InCall, SetCall, Sound, Alive, Started
  <2>4. QED
    BY <2>1, <2>2, <2>3 DEF IInv
<1>2. IInv /\ [Next]_vars => IInv'
  <2> SUFFICES ASSUME IInv, [Next]_vars PROVE IInv'
    OBVIOUS
  <2>1. ASSUME NEW p \in Process, StartStep(p) \/ SetStep(p) \/ WorkStep(p) PROVE IInv'
    BY <2>1, StartKeeps, SetKeeps, WorkKeeps
  <2>2. CASE ChangeLayout
    <3>1. TypeOK'
      <4>1. changes' \in 0 .. MaxChanges
        BY <2>2 DEF ChangeLayout, IInv, TypeOK
      <4>2. QED
        BY <2>2, <4>1 DEF ChangeLayout, IInv, TypeOK
    <3>2. Apart' /\ Fit'
      BY <2>2 DEF ChangeLayout, IInv, Apart, Fit
    <3>3. Lone'
      BY <2>2 DEF ChangeLayout, IInv, Lone, Alone, Call, PInv, SetCall, Alive
    <3>4. ASSUME NEW q \in Process PROVE PInv(q)'
      <4>1. pc[q] \in {"off", "raised"} /\ PInv(q)
        BY <2>2 DEF ChangeLayout, IInv, Alive
      <4>2. QED
        BY <2>2, <4>1 DEF ChangeLayout, PInv, Call, InCall, SetCall
    <3>5. QED
      BY <3>1, <3>2, <3>3, <3>4 DEF IInv
  <2>3. CASE UNCHANGED vars
    BY <2>3 DEF vars, history, IInv, TypeOK, Apart, Fit, Lone, Alone, PInv, Call, Sound,
                Alive, Started, Exists, Found
  <2>4. QED
    BY <2>1, <2>2, <2>3 DEF Next
<1>3. QED
  BY <1>1, <1>2, PTL DEF Spec

(* The types of the variables of shared memory (lua_shm.cpp, memory.lua). *)
THEOREM TypeCorrect == Spec => []TypeOK
<1>1. IInv => TypeOK
  BY DEF IInv
<1>2. QED
  BY Inductive, <1>1, PTL

(***************************************************************************)
(* The pointers that started processes keep (memory.lua:65-67) are those of*)
(* the named arrays from when the segment was empty, or one process alone  *)
(* has replaced what it found there, until a process sets an array of      *)
(* another length; no process has to wait for another.                     *)
(***************************************************************************)
THEOREM PointersLiveCorrect == Spec => []PointersLive
<1>1. IInv => PointersLive
  <2> SUFFICES ASSUME IInv, steady, NEW p \in Process
               PROVE  /\ Started(p) => \A k \in Key : ptr[p][k] # None /\ ptr[p][k] = Found(k)
                      /\ pc[p] \in {"write", "get"} => pr[p] # None /\ pr[p] = Found(key[p])
    BY DEF PointersLive
  <2>0. TypeOK /\ Sound(p) /\ Call(p)
    BY DEF IInv, PInv
  <2>1. \A k \in Key : Exists(k) => Found(k) # None
    BY <2>0 DEF Exists, Found, TypeOK, Block
  <2>2. Started(p) => \A k \in Key : ptr[p][k] # None /\ ptr[p][k] = Found(k)
    BY <2>0, <2>1 DEF Sound
  <2>3. pc[p] \in {"write", "get"} => pr[p] # None /\ pr[p] = Found(key[p])
    BY <2>0, <2>1 DEF Sound, Call, InCall, SetCall
  <2>4. QED
    BY <2>2, <2>3
<1>2. QED
  BY Inductive, <1>1, PTL
-----------------------------------------------------------------------------
(***************************************************************************)
(* Somebody has neither failed nor is bound to: whoever makes the array    *)
(* that another one was about to make goes on itself, and so does whoever  *)
(* frees the one that another was about to free.                           *)
(***************************************************************************)
Unharmed(p) ==
  /\ pc[p] # "raised"
  /\ pc[p] = "construct" => index[key[p]] = None
  /\ pc[p] = "destroy" => index[key[p]] = None \/ pr[p] = Found(key[p])

(* Of the processes that race to create or to resize keys one gets through *)
(* (lua_shm.cpp:177, 183).                                                 *)
THEOREM SomeoneSurvivesCorrect == Spec => []SomeoneSurvives
<1> DEFINE Some == \E p \in Process : Unharmed(p)
<1>1. Init => Some
  BY DEF Init, Unharmed
<1>2. IInv /\ Some /\ [Next]_vars => Some'
  <2> SUFFICES ASSUME IInv, NEW p \in Process, Unharmed(p), [Next]_vars PROVE Some'
    OBVIOUS
  <2>0. TypeOK
    BY DEF IInv
  <2>1. ASSUME NEW q \in Process, StartStep(q) \/ WorkStep(q) PROVE Some'
    <3>1. pc'[q] \notin {"raised", "construct", "destroy"} \/ UNCHANGED <<index, pc, key, pr>>
      BY <2>0, <2>1 DEF StartStep, WorkStep, Start, KeysDone, PointersDone, KeyExists,
           KeyMissing, TakePointer, GetReturns, Die, End, Set, Get, TypeOK
    <3>2. QED
      BY <3>1 DEF Unharmed, Found
  <2>2. ASSUME NEW q \in Process, Construct(q) \/ Write(q) PROVE Some'
    <3>1. pc'[q] \notin {"raised", "construct", "destroy"}
      BY <2>0, <2>2 DEF Construct, Write, TypeOK
    <3>2. QED
      BY <3>1 DEF Unharmed
  <2>3. ASSUME NEW q \in Process, Find(q) PROVE Some'
    <3>1. key[q] \in Key
      BY <2>3 DEF IInv, PInv, Call, InCall, SetCall, Find
    <3>2. /\ pc'[q] # "raised" /\ (pc'[q] = "construct" => index'[key'[q]] = None)
          /\ pr'[q] = Found(key[q]) /\ key' = key /\ index' = index
      BY <2>0, <2>3, <3>1 DEF Find, TypeOK
    <3>3. QED
      BY <3>2 DEF Unharmed, Found
  <2>4. ASSUME NEW q \in Process, DestroyPtr(q) PROVE Some'
    <3>1. key[q] \in Key /\ pc[q] = "destroy" /\ pc'[q] = "construct"
      BY <2>0, <2>4 DEF IInv, PInv, Call, InCall, SetCall, DestroyPtr, TypeOK
    <3>2. UNCHANGED <<key, pr>> /\ \A r \in Process : r # q => pc'[r] = pc[r]
      BY <2>0, <2>4 DEF DestroyPtr, TypeOK
    <3>3. \A k \in Key : index'[k] \in {index[k], None}
      BY <2>0, <2>4, <3>1 DEF DestroyPtr, TypeOK
    <3>4. CASE p # q
      <4>1. pc[p] \in {"construct", "destroy"} => key[p] \in Key
        BY DEF IInv, PInv, Call, InCall, SetCall
      <4>2. Unharmed(p)'
        BY <3>2, <3>3, <3>4, <4>1 DEF Unharmed, Found
      <4>3. QED
        BY <4>2
    <3>5. CASE p = q /\ index[key[q]] = None
      <4>1. index'[key[q]] = None
        BY <3>1, <3>3, <3>5
      <4>2. Unharmed(q)'
        BY <3>1, <3>2, <4>1 DEF Unharmed
      <4>3. QED
        BY <4>2
    <3>6. CASE p = q /\ index[key[q]] # None
      <4>1. pr[q] = Found(key[q]) /\ pr[q] = index[key[q]].at /\ pr[q] # None
        BY <2>0, <3>1, <3>6 DEF Unharmed, Found, TypeOK, Block
      <4>2. \A k \in Key : Found(k) = pr[q] => k = key[q]
        <5> SUFFICES ASSUME NEW k \in Key, Found(k) = pr[q], k # key[q] PROVE FALSE
          OBVIOUS
        <5>1. index[k] # None /\ index[k].at = index[key[q]].at
          BY <4>1 DEF Found
        <5>2. QED
          BY <3>1, <3>6, <5>1 DEF IInv, Apart
      <4>3. index' = [index EXCEPT ![key[q]] = None]
        BY <2>4, <3>1, <4>1, <4>2 DEF DestroyPtr
      <4>4. index'[key[q]] = None
        BY <2>0, <3>1, <4>3 DEF TypeOK
      <4>5. Unharmed(q)'
        BY <3>1, <3>2, <4>4 DEF Unharmed
      <4>6. QED
        BY <4>5
    <3>7. QED
      BY <3>4, <3>5, <3>6
  <2>5. ASSUME NEW q \in Process, ConstructRaises(q) PROVE Some'
    <3>1. p # q
      BY <2>5 DEF ConstructRaises, Unharmed
    <3>2. UNCHANGED index /\ pc'[p] = pc[p] /\ key'[p] = key[p] /\ pr'[p] = pr[p]
      BY <2>0, <2>5, <3>1 DEF ConstructRaises, End, TypeOK
    <3>3. QED
      BY <3>2 DEF Unharmed, Found
  <2>6. CASE ChangeLayout \/ UNCHANGED vars
    BY <2>6 DEF ChangeLayout, vars, Unharmed, Found
  <2>7. QED
    BY <2>1, <2>2, <2>3, <2>4, <2>5, <2>6 DEF Next, SetStep
<1>3. Some => SomeoneSurvives
  BY DEF Unharmed, SomeoneSurvives
<1>4. QED
  BY Inductive, <1>1, <1>2, <1>3, PTL DEF Spec
=============================================================================
