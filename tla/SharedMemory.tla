---------------------------- MODULE SharedMemory ----------------------------
(***************************************************************************)
(* A segment of Modules/shm as Util/memory.lua uses it: several processes  *)
(* create the named arrays of the segment when they start, keep pointers   *)
(* into it, and read and write it from then on.  The segment outlives them *)
(* and may be found with arrays of other lengths than they declare.        *)
(*                                                                         *)
(* find, construct and destroy_ptr of boost lock the segment: each is one  *)
(* step.  What the arrays hold is left out.                                *)
(***************************************************************************)
EXTENDS Naturals, FiniteSets

CONSTANTS
  Process,
  Key,          \* the arrays of the segment
  Length,
  Address,      \* places for an array in the segment
  Layouts,      \* configurations: each declares the length of every array
  OtherLengths, \* lengths that set is also given for a key: command_position
                \* is declared with 20 (dcm.lua:53) and set with nJoint
                \* elements (WebotsBody.lua:251)
  None,         \* the null pointer, and no key
  MaxChanges    \* bound: times an array is given another length

Block == [at : Address, n : Length]

ASSUME SegmentAssumption ==
  /\ Process # {}
  /\ Key # {}
  /\ Layouts \subseteq [Key -> Length]
  /\ OtherLengths \in [Key -> SUBSET Length]
  /\ None \notin Block \cup Address \cup Key \cup Process \cup Length
  /\ MaxChanges \in Nat

VARIABLES
  index,        \* the block of each name
  layout,       \* the configuration processes load at present
  changes,
  pc,           \* of each process
  todo,         \* keys its loop has not come to
  key, nval, pr,\* arguments and local of lua_shm_set and lua_shm_get, if called
  default,      \* it is init_shm_keys that calls
  ptr,          \* pointers it keeps
  lone,         \* history: the process that creates the keys while no other lives
  steady        \* history: no array was given another length since the segment
                \* was empty, or since a lone process created the keys

history == <<lone, steady>>
vars == <<index, layout, changes, pc, todo, key, nval, pr, default, ptr, history>>

Step == {"off", "keys", "find", "construct", "destroy", "write", "pointers", "ready",
         "get", "raised"}

TypeOK ==
  /\ index \in [Key -> Block \cup {None}]
  /\ layout \in Layouts
  /\ changes \in 0 .. MaxChanges
  /\ pc \in [Process -> Step]
  /\ todo \in [Process -> SUBSET Key]
  /\ key \in [Process -> Key \cup {None}]
  /\ nval \in [Process -> Length \cup {None}]
  /\ pr \in [Process -> Address \cup {None}]
  /\ default \in [Process -> BOOLEAN]
  /\ ptr \in [Process -> [Key -> Address \cup {None}]]
  /\ lone \in Process \cup {None}
  /\ steady \in BOOLEAN

(* What find returns for a name. *)
Found(k) == IF index[k] = None THEN None ELSE index[k].at

(* The key is there, with the length that the configuration declares. *)
Exists(k) == index[k] # None /\ index[k].n = layout[k]

Alive(p) == pc[p] \notin {"off", "raised"}

Init ==
  /\ index = [k \in Key |-> None]
  /\ layout \in Layouts
  /\ changes = 0
  /\ pc = [p \in Process |-> "off"]
  /\ todo = [p \in Process |-> {}]
  /\ key = [p \in Process |-> None]
  /\ nval = [p \in Process |-> None]
  /\ pr = [p \in Process |-> None]
  /\ default = [p \in Process |-> FALSE]
  /\ ptr = [p \in Process |-> [k \in Key |-> None]]
  /\ lone = None
  /\ steady = TRUE

-----------------------------------------------------------------------------
(* The start of a process. *)

(* It loads the memory modules, whoever else runs or starts. *)
Start(p) ==
  /\ ~Alive(p)
  /\ pc' = [pc EXCEPT ![p] = "keys"]
  /\ todo' = [todo EXCEPT ![p] = Key]
  /\ lone' = IF \A q \in Process : ~Alive(q) THEN p ELSE None
  /\ UNCHANGED <<index, layout, changes, key, nval, pr, default, ptr, steady>>

(* Mutant: a key of any length counts as one that is there. *)
KeyExistsAnyLength(p, k) ==
  /\ pc[p] = "keys" /\ k \in todo[p]
  /\ index[k] # None
  /\ todo' = [todo EXCEPT ![p] = @ \ {k}]
  /\ UNCHANGED <<index, layout, changes, pc, key, nval, pr, default, ptr, history>>

(* shm_key_exists: nothing is left to do for this key. *)
KeyExists(p, k) ==
  /\ pc[p] = "keys" /\ k \in todo[p]
  /\ Exists(k)
  /\ todo' = [todo EXCEPT ![p] = @ \ {k}]
  /\ UNCHANGED <<index, layout, changes, pc, key, nval, pr, default, ptr, history>>

(* shm_key_exists is false: the table of defaults is set. *)
KeyMissing(p, k) ==
  /\ pc[p] = "keys" /\ k \in todo[p]
  /\ ~Exists(k)
  /\ todo' = [todo EXCEPT ![p] = @ \ {k}]
  /\ pc' = [pc EXCEPT ![p] = "find"]
  /\ key' = [key EXCEPT ![p] = k]
  /\ nval' = [nval EXCEPT ![p] = layout[k]]
  /\ default' = [default EXCEPT ![p] = TRUE]
  /\ UNCHANGED <<index, layout, changes, pr, ptr, history>>

(* The loop over the pointers begins when that over the keys is done. *)
KeysDone(p) ==
  /\ pc[p] = "keys" /\ todo[p] = {}
  /\ pc' = [pc EXCEPT ![p] = "pointers"]
  /\ todo' = [todo EXCEPT ![p] = Key]
  /\ steady' = (steady \/ lone = p)
  /\ lone' = IF lone = p THEN None ELSE lone
  /\ UNCHANGED <<index, layout, changes, key, nval, pr, default, ptr>>

TakePointer(p, k) ==
  /\ pc[p] = "pointers" /\ k \in todo[p]
  /\ todo' = [todo EXCEPT ![p] = @ \ {k}]
  /\ ptr' = [ptr EXCEPT ![p][k] = Found(k)]
  /\ UNCHANGED <<index, layout, changes, pc, key, nval, pr, default, history>>

PointersDone(p) ==
  /\ pc[p] = "pointers" /\ todo[p] = {}
  /\ pc' = [pc EXCEPT ![p] = "ready"]
  /\ UNCHANGED <<index, layout, changes, todo, key, nval, pr, default, ptr, history>>

-----------------------------------------------------------------------------
(* lua_shm_set, from init_shm_keys and from the set functions. *)

(* Mutant: find is not asked. *)
FindNever(p) ==
  /\ pc[p] = "find"
  /\ pr' = [pr EXCEPT ![p] = None]
  /\ pc' = [pc EXCEPT ![p] = "construct"]
  /\ UNCHANGED <<index, layout, changes, todo, key, nval, default, ptr, history>>

Find(p) ==
  /\ pc[p] = "find"
  /\ pr' = [pr EXCEPT ![p] = Found(key[p])]
  /\ pc' = [pc EXCEPT ![p] =
              IF index[key[p]] = None THEN "construct"
              ELSE IF index[key[p]].n = nval[p] THEN "write" ELSE "destroy"]
  /\ UNCHANGED <<index, layout, changes, todo, key, nval, default, ptr, history>>

(***************************************************************************)
(* destroy_ptr frees the array that begins at the pointer, under whatever  *)
(* name: the place may have been freed and given away since it was found.  *)
(* A pointer to no array is undefined behaviour: here nothing happens, or  *)
(* the array goes whose name the freed block still shows, or the process   *)
(* dies (Die).                                                             *)
(***************************************************************************)
DestroyPtr(p) ==
  /\ pc[p] = "destroy"
  /\ \/ \E k \in Key : Found(k) = pr[p] /\ index' = [index EXCEPT ![k] = None]
     \/ /\ \A k \in Key : Found(k) # pr[p]
        /\ index' \in {index, [index EXCEPT ![key[p]] = None]}
  /\ pc' = [pc EXCEPT ![p] = "construct"]
  /\ UNCHANGED <<layout, changes, todo, key, nval, pr, default, ptr, history>>

(* A free place is taken; the segment is never full. *)
Construct(p) ==
  /\ pc[p] = "construct"
  /\ index[key[p]] = None
  /\ \E a \in Address :
       /\ \A k \in Key : Found(k) # a
       /\ index' = [index EXCEPT ![key[p]] = [at |-> a, n |-> nval[p]]]
       /\ pr' = [pr EXCEPT ![p] = a]
  /\ pc' = [pc EXCEPT ![p] = "write"]
  /\ UNCHANGED <<layout, changes, todo, key, nval, default, ptr, history>>

(* A process that ends loses its memory, and the segment stays. *)
End(p, how) ==
  /\ pc' = [pc EXCEPT ![p] = how]
  /\ todo' = [todo EXCEPT ![p] = {}]
  /\ key' = [key EXCEPT ![p] = None]
  /\ nval' = [nval EXCEPT ![p] = None]
  /\ pr' = [pr EXCEPT ![p] = None]
  /\ default' = [default EXCEPT ![p] = FALSE]
  /\ ptr' = [ptr EXCEPT ![p] = [k \in Key |-> None]]
  /\ lone' = IF lone = p THEN None ELSE lone
  /\ UNCHANGED <<index, layout, changes, steady>>

(* The name was taken since: boost throws, and nobody catches. *)
ConstructRaises(p) ==
  /\ pc[p] = "construct"
  /\ index[key[p]] # None
  /\ End(p, "raised")

(* The arguments and locals of a call that returns are gone. *)
Return(p) ==
  /\ key' = [key EXCEPT ![p] = None]
  /\ nval' = [nval EXCEPT ![p] = None]
  /\ pr' = [pr EXCEPT ![p] = None]
  /\ default' = [default EXCEPT ![p] = FALSE]

(* The elements are copied, and the caller goes on. *)
Write(p) ==
  /\ pc[p] = "write"
  /\ pc' = [pc EXCEPT ![p] = IF default[p] THEN "keys" ELSE "ready"]
  /\ Return(p)
  /\ UNCHANGED <<index, layout, changes, todo, ptr, history>>

-----------------------------------------------------------------------------
(* A process at work. *)

(* An array of n elements is set. *)
Set(p, k, n) ==
  /\ pc[p] = "ready"
  /\ key' = [key EXCEPT ![p] = k]
  /\ nval' = [nval EXCEPT ![p] = n]
  /\ default' = [default EXCEPT ![p] = FALSE]
  /\ pc' = [pc EXCEPT ![p] = "find"]
  /\ steady' = (steady /\ n = layout[k])
  /\ changes' = changes + (IF n = layout[k] THEN 0 ELSE 1)
  /\ changes' <= MaxChanges
  /\ UNCHANGED <<index, layout, todo, pr, ptr, lone>>

(* lua_shm_get: find, then the elements are copied out. *)
Get(p, k) ==
  /\ pc[p] = "ready"
  /\ key' = [key EXCEPT ![p] = k]
  /\ pr' = [pr EXCEPT ![p] = Found(k)]
  /\ pc' = [pc EXCEPT ![p] = "get"]
  /\ UNCHANGED <<index, layout, changes, todo, nval, default, ptr, history>>

GetReturns(p) ==
  /\ pc[p] = "get"
  /\ pc' = [pc EXCEPT ![p] = "ready"]
  /\ Return(p)
  /\ UNCHANGED <<index, layout, changes, todo, ptr, history>>

(* The process is ended, anywhere. *)
Die(p) == Alive(p) /\ End(p, "off")

(* Somebody edits the configuration while the robot is down. *)
ChangeLayout ==
  /\ \A p \in Process : ~Alive(p)
  /\ changes < MaxChanges
  /\ layout' \in Layouts \ {layout}
  /\ changes' = changes + 1
  /\ steady' = FALSE
  /\ UNCHANGED <<index, pc, todo, key, nval, pr, default, ptr, lone>>

StartStep(p) ==
  \/ Start(p) \/ KeysDone(p) \/ PointersDone(p)
  \/ \E k \in Key : KeyExists(p, k) \/ KeyMissing(p, k) \/ TakePointer(p, k)

SetStep(p) ==
  Find(p) \/ DestroyPtr(p) \/ Construct(p) \/ ConstructRaises(p) \/ Write(p)

WorkStep(p) ==
  \/ GetReturns(p) \/ Die(p)
  \/ \E k \in Key : \/ Get(p, k)
                   \/ \E n \in {layout[k]} \cup OtherLengths[k] : Set(p, k, n)

Next ==
  \/ \E p \in Process : StartStep(p) \/ SetStep(p) \/ WorkStep(p)
  \/ ChangeLayout

Spec == Init /\ [][Next]_vars

-----------------------------------------------------------------------------
(* Properties. *)

(* Its start is over. *)
Started(p) == Alive(p) /\ pc[p] \notin {"keys", "pointers"} /\ ~default[p]

(***************************************************************************)
(* A process that has started reads and writes through its pointers the    *)
(* arrays that the others find under the names (memory.lua:65-67), and    *)
(* copies to and from these only (lua_shm.cpp:178-195, 216), whoever else *)
(* starts, fails or dies where, from the time on that the segment was      *)
(* empty or that one process, alone, has replaced what a crash in the      *)
(* middle of a resize or another configuration left there, and until an    *)
(* array of another length is set.                                         *)
(***************************************************************************)
PointersLive ==
  steady =>
    \A p \in Process :
      /\ Started(p) => \A k \in Key : ptr[p][k] # None /\ ptr[p][k] = Found(k)
      /\ pc[p] \in {"write", "get"} => pr[p] # None /\ pr[p] = Found(key[p])

(***************************************************************************)
(* Processes that create or resize the same keys at once may fail: the     *)
(* loser of construct throws (lua_shm.cpp:177, 183).  They never all do,   *)
(* in whatever order each of them comes to the keys, and although one may  *)
(* destroy an array that another one just made.                            *)
(***************************************************************************)
SomeoneSurvives == \E p \in Process : pc[p] # "raised"
=============================================================================
