# TLA+ models of TB3PNUOpen

TB3PNUOpen is the software of a family of TurtleBot-like robots: Lua programs on
LuaJIT that run state machines, share memory with other processes, and talk to
ROS, to each other over UDP or ZeroMQ, and to the simulator Webots. This
directory holds models of its core in TLA+, the TLC configurations that check
them, and proofs for the TLA+ proof system.

## 1. The system

| Component (source) | State it keeps | Operations | Talks to | Hard because |
|---|---|---|---|---|
| FSM engine (`Util/fsm.lua`, `Util/fsm_helper.lua`) | current, previous, next state, event queue, transition table | `entry`, `update`, `exit`, `add_event`, `set_state`, `set_transition`, `remove_transition` | states' callbacks, which call it back | re-entrancy, errors in the middle of a transition |
| State wizard (`Run/state_wizard.lua`) | a coroutine per machine, `running` | rounds of resumes, end | every machine, the signal handler | the handler runs between any two instructions, coroutines die |
| Velocity drive chain (`Run/webots_wizard.lua`, `Player/MotionFSM/TB3/motionIdle.lua`, `motionWebots.lua`, `Robots/TB3/WebotsBody.lua`) | FSM state, `hcm.base`, `dcm.actuator`, motors | enter, update, body update, revert | `/cmd_vel`, shared memory, simulator | latched messages, timeouts, shared memory that outlives the process |
| Joint commands (`Run/rosio_wizard.lua`, `WebotsBody.lua`) | `dcm.actuator` arrays | merge by name, write modes, write velocities; snapshot, drive | `/joint_cmd`, shared memory | two processes without a lock, both go element by element |
| ROS subscribers (`Modules/rossub`) | ROS queue, `_new`, `_newMsg`, mutex | `OnRosMsg`, `checkMsg`, `getMsg` | ROS, Lua | a thread of its own; the check does not lock |
| ROS publishers (`Modules/tb3_rospub`) | latched queue of one | one function per topic | ROS | the latch replays |
| UDP transport (`Modules/udp`, `send_triple` of `Util/simple_ipc.lua`) | `uuid_buf`, `recv_queue` | `send_all`, `packet_update`, `size`, `receive` | the network | loss, duplication, reordering, repeated uuids |
| Autorace course (`Webots/controllers`) | status of light, gate and sign | one step each | a common radio channel | repeated messages, timers, a car that does what it likes |
| Gamepad (`Modules/xbox360`) | five arrays, target, age of the last press | USB thread, read, send | `hcm`, the topic `/teleop_vel` | no lock; two clocks; ROS writes the same velocity |
| Shared memory (`Modules/shm`, `Util/memory.lua`) | named arrays, pointers of each process | create, set, get, pointer | all processes | races at creation and resize, processes killed between two steps |
| Signal queue (`Modules/signal`) | a linked list, the saved debug hook | `handle`, `sighook`, `signal` | Lua programs | handlers interrupt the list's own code |
| Channels (`Util/simple_ipc.lua`) | sockets and callbacks | send, receive, poll | all programs | non-blocking receive of many messages |
| Algorithms (`Util/util.lua`) | none | crc16, limits, angles, splines | callers | boundaries |

The others (bodies and configuration, geometry, system bindings, vendored code,
worlds) are listed in `PROJECT.json` with the reason why they have no model.
The places where each component can go wrong are the hazards listed there.

How the parts interact. ROS delivers a message to the thread of a subscriber,
which leaves it in a mailbox. The Lua program polls the mailbox from the update
of a state (velocity commands) or from `rosio_wizard` (joint commands) and
writes shared memory. `WebotsBody.update`, in the control loop, copies shared
memory to the motors and steps the simulator. On the robot, `state_wizard`
resumes one coroutine per state machine, each of them an instance of the FSM
engine.

What makes a component correct:

- FSM engine: entry and exit alternate, no event reaches a state it was not
  meant for, a requested state is entered.
- State wizard: one machine's death costs the others nothing, a signal ends the
  program and stops every update but the one that is already under way.
- Drive chain: wheels turn for a fresh command only, never for a replayed or an
  expired one, and the newest command wins.
- Joint commands: a wheel gets only velocities meant for it, a torn copy lasts a
  step, a restart does not move the robot by itself.
- Subscribers: messages are whole, in order, taken once; the last one arrives.
- UDP transport: what comes out was sent, whole; it comes out when its packets do;
  messages under one uuid mix at worst byte for byte in their places.
- Course: the judgement follows what the car did.
- Gamepad: released triggers stop the robot, held ones are driven, and a gamepad
  nobody touches leaves ROS alone.
- Shared memory: pointers are good from the start on for as long as nobody gives
  an array another length, a race at the start leaves somebody alive.
- Signal queue: the list stays whole whenever the handler interrupts, functions are
  called in order, and Ctrl-C ends the program.

## 2. Modules

| Module | Models | Actions and the code they stand for |
|---|---|---|
| `MotionControl` | the drive chain, several runs of the controller | `Publish` (rospub `cmdvel`), `Deliver` (`OnRosMsg`), `Start` (load and entry of the FSM), `BodyEntry`, `IdleWait` and `EnterDrive` (`motionIdle.update` and the transition), `DriveUpdate` (`motionWebots.update`: `CheckTwist` then `MoveBase`), `BodyUpdate` (motors, `wb_robot_step`), `Revert` (the process ends, shared memory stays) |
| `DeadManSwitch` | the promise of the drive chain, abstractly | |
| `JointCommand` | `/joint_cmd` to the wheels through two processes | `Publish`, `Deliver`, `Settle`, `ReadCommand` (poll, copy and merge), `WriteEnable` and `WriteVelocity` (one array element each), `RosioDies`; `Start`, `BodyEntry`, `Snapshot` and `DriveJoint` (one joint each), `Revert` |
| `Fsm` | the engine, with callbacks that call it back | `AddEvent`, `SetState`, `SetTransition`, `RemoveTransition`, `Entry`, `Update`, `Exit`; a change of state is `ExitState`, `RunAction`, `EnterNext`, each one callback with the engine's code up to the next; `Raise` ends the coroutine |
| `StateWizard` | the scheduler | `Create`, `BeginRounds`, `ReadRunning` (the argument of `resume`), `Resume` (the end of an update), `ResumeToExit`, `SkipDead`, `EndRound`, `UntilNotRunning`, `Signal` |
| `SignalQueue` | `lua_signal.c`: the C handler, and the debug hook access by access | `Handle` (`Begin`, `AppendEvent`), `Kill` (no handler yet); `HookFires`, `TestQueue`, `CallReturns`, `ReadNext`, `StoreNext`, `FreeEvent`; `Register` |
| `SignalService` | the promise of the queue of signals: which signals are served, and which one may lose | |
| `SignalledWizard` | `StateWizard` composed with `SignalQueue` | `RegisterShutdown`, `Arrives`, `Killed`; `Hook`, in which `CallShutdown` is the `Signal` of the scheduler; `Lua`, a step of the scheduler |
| `SharedMemory` | `memory.lua` and `lua_shm.cpp` in several processes | `Start`, `KeyExists` and `KeyMissing` (the look-up of `init_shm_keys`), `Find`, `DestroyPtr`, `Construct`, `ConstructRaises` and `Write` (`lua_shm_set`), `TakePointer`; `KeysDone`, `PointersDone`; `Set` (an array of the declared or of another length), `Get`, `GetReturns`; `Die` and `ChangeLayout` from outside |
| `Teleop` | the gamepad and ROS as two masters of `hcm.base` | `Report`, `WriteTrigger` (USB thread); `PadStarts`, `ReadFirst`, `ReadSecond`, `SendCommand`, `SendTime`, `SendVelocity` (`xb360_wizard`); `NoCommand`, `RosCommand`, `RosTime`, `MoveStops`, `MoveGoes`, `MoveBase` (`motionWebots.update`); `Tick` |
| `Mailbox` | `_Subscriber` of rossub, statement by statement | `Publish`; `LockQueue`, `SetFlag`, `CopyIn`, `UnlockQueue` (thread); `Check`, `LockLua`, `CopyOut`, `ClearFlag`, `UnlockLua` (program) |
| `LatestValue` | the promise of a mailbox: a register | |
| `UdpTransport` | fragmentation and reassembly | `SendAll`, `Restart` (of the sender), `PacketUpdate` (one packet arrives), `SizeCall`, `Receive` |
| `Autorace` | light, gate, sign and sensors | `Step`: all programs once, as Webots does |

State variables keep the names of the code where TLA+ allows it. Variables that
are marked *history* in a module record what happened for the properties only;
no guard reads them. Definitions introduced by "Mutant" are variants of the one
below them with a plausible mistake; they show that the properties depend on
that piece of code and are part of no specification.

`MotionControl` and `JointCommand` contain the mailbox as one variable, which
`Mailbox` justifies: it shows that the real one is such a register. `Fsm` models
one machine and `StateWizard` the coroutines of many. The drive chain contains
the motion machine in a closed form, with the two states and the one event that
the configuration installs; `MCFsm` is the same table in the general engine.
`MotionControl` has ROS as the only writer of `hcm` and follows it from the topic
to the motors over several runs; `Teleop` adds the second writer and leaves the
topic and the motors out.

### Abstractions

- Time in `MotionControl` is the control step of the simulator; a message takes
  at most `MaxLag` steps, which `LagAssumption` requires to be less than the
  second during which commands are ignored. Without it a replayed message could
  arrive late enough to be obeyed; nothing in the code excludes that, the
  assumption is about ROS on one machine.
- `get_motor_velocity` is a constant function `Motor` that maps zero to zero.
- Messages in `JointCommand` name wheels only. Arm, gripper and legs are written
  by the same statements to other places of the same arrays.
- `Autorace` counts in steps and has six places on the course.
- `Teleop` has the forward speed and the two triggers; sticks and the other two
  components go through the same statements. Times are ages. A stamp of the
  gamepad is one age, `Ahead`, that never expires: it is taken from the clock of
  the system, which is ahead of that of the simulation by decades.
- `SharedMemory` leaves out what the arrays hold; the walk of `shm_key_exists` over
  the names counts as one look-up. A process may start whoever else runs or starts,
  and places that were freed are given to other arrays. `destroy_ptr` with a pointer
  to which no array belongs any more is undefined: the model lets nothing happen, lets
  the array go whose name the freed block still shows, or lets the process die. One
  segment stands for all; every process may set an array with another length, although
  in the code only the controller does (`WebotsBody.lua:251`). The mutex of the segment
  that a killed process leaves locked is not modelled.
- `StateWizard` reads the flag in a step of its own, as the argument of `resume`. The
  test in the coroutine and the update follow in one step, which stands for the end of
  the update: the hook may run before the test, after it or inside the update, and
  nothing of the scheduler changes in between.
- In `MotionControl` the motors stand still from the end of a run:
  `wb_supervisor_simulation_revert` resets the world with them. What the motors of a
  controller do that died and whose world nobody reverts is not modelled.
- Messages of `/joint_cmd` have as many velocities as names, as all calls of `joint_cmd`
  in the repository that name wheels of their robot do (`Test/test_tb3.lua`,
  `Test/test_tb3_n.lua`); `lua_rossub.cpp:142-147` would let fewer through.
- Signals: functions return and stay registered, and one handler does not
  interrupt another.
- A packet's bytes are known by their place in the message, so that a byte of a
  wrong message or place is recognized.

## 3. Runs

| Run | Module, configuration | Shows |
|---|---|---|
| `motion_control` | `MCMotionControl`, `MotionControl.cfg` | `NoReplay`: a command published before the subscription is never obeyed. `DeadMan`: outside the entry step the wheels turn only for the accepted command and stop in time. `LastCommandWins`. `IsDeadManSwitch`: refinement of `DeadManSwitch`. `DriveReached`: the idle wait ends |
| `joint_command` | `MCJointCommand`, `JointCommand.cfg` | `Provenance`, `TornOneStep`, `NoLeftover`, `FreshVelocity` (as long as rosio did not die) with partial and reordered messages, restarts of the robot's process and a death of rosio. `CommandDriven`: the last command published while both listen is driven |
| `fsm` | `MCFsm`, `Fsm.cfg` | `OneEntered`, `EventsAreCurrent`, `RequestKept`, `EventLeaves`, with callbacks that add events, set states, or raise, and a table edited while running |
| `fsm_set_state` | `FsmSetState.cfg` | finding |
| `signalled_wizard` | `MCSignalledWizard`, `SignalledWizard.cfg` | `Lockstep`, `AllUpdated` of the scheduler; `NoUpdateAfterSignal`: after `shutdown` at most the machine resumed before it is updated, and none beside one that has exited; `ListWhole`, `InOrder`, `NotForgotten` of the queue, `IsService`: refinement of `SignalService`, `InterruptEnds` of both together |
| `state_wizard_exit` | `StateWizardExit.cfg` | finding |
| `mailbox` | `Mailbox`, `Mailbox.cfg` | `IsRegister`: refinement of `LatestValue`. `CheckKept`; `LastOnItsWay`: the last message is never lost; `LastGot`: it is got |
| `udp_transport` | `MCUdpTransport`, `UdpTransport.cfg` | For uuids used once and sizes that survive the count of packets: `Intact`, `LossTolerated`, `NoMoreThanArrived`. For all: `MixedInPlace`, what comes out has only bytes of the messages of its uuid, in rising places |
| `udp_size` | `UdpTransportSize.cfg` | finding |
| `autorace` | `MCAutorace`, `Autorace.cfg` | `FalseStartSeen`, `OneSign`, `GateOpens`, `RaceBegins`; `FinishIsLap`: a car that was past the line, or round, in the last step before the game's time was over, and that finishes, has made a lap |
| `shared_memory` | `MCSharedMemory`, `SharedMemory.cfg` | `PointersLive`: while the segment is steady, started processes hold pointers to the arrays of that name and copy only these. `SomeoneSurvives`: not all fail of the race at creation and resize |
| `teleop` | `MCTeleop`, `Teleop.cfg` | `NoRunaway`: wheels that turn have a command of ROS or a press behind them that is young enough, unless ROS spoke while the gamepad ramped to its stop. `RosObeyed`: a gamepad at rest leaves the commands of ROS alone. `PadDrives`: held triggers are driven in the end |

### Bounds

- `motion_control`: ten control steps are enough for idle wait (2), settling
  (2), a command, its expiry (2) and a lag of 1; two runs, so that a command,
  `hcm` and `dcm` of a first one are there in the second; two messages under
  way, so that one overwrites the other.
- `joint_command`: two wheels, two velocities, two messages, two runs of the
  robot, one death of rosio: a message of the first run, one of the second. The
  proofs cover any number.
- `fsm`: two states, two events, a queue of three, one edit of the table. The
  proofs cover any number.
- `signalled_wizard`: three machines, of which one is disabled; updates counted
  modulo 4, which tells differences of -1, 0 and 1 from all others; three
  signals, so that one arrives while another is handled and a third is appended
  to the lost one.
- `shared_memory`: three processes (one runs, two race), two keys, three places,
  two layouts; one change of a length, by an edit of the configuration or by a set;
  processes are interchangeable. The proofs cover any number of each.
- `teleop`: a full ramp takes two steps, and so does the time-out; the window is four
  steps, which leaves room for the ramp and twice the longest gap between
  two commands, as 1.5 s does in the code. ROS drives backwards, so that the ramp
  crosses zero. The proofs cover any numbers with that room.
- `mailbox`: three parts, a queue of two and six messages, so that the queue
  overflows while one is copied. The proofs cover any number.
- `udp_transport`: messages of one, two and three packets, each packet arriving
  up to twice, two uuids, so that uuids come back, one restart of the sender,
  and a queue shorter than the number of messages. The proofs cover any messages,
  sizes, uuids, arrivals and restarts.
- `autorace`: the constants keep the order of the real times
  (gate 5 s < game 15 s), and one lap takes six steps at least.

Deadlock is checked except in `fsm`, `signalled_wizard`, `mailbox` and `udp_transport`,
whose systems end: a dead or stopped machine, the end of the program, no message
left.
The other specifications have an action that is always possible; their bounds
limit what is enabled and do not stop them.

### Fairness

Weak fairness, always of code that a loop runs without waiting on anybody:
the control loop and the subscriber's thread, which polls every 10 ms
(`MotionControl`, `JointCommand`, `Mailbox`); the engine's update, resumed in
every round (`Fsm`); the steps of the debug hook (`SignalledWizard`); the USB
thread, the loop of the gamepad and the update of the controller (`Teleop`);
the simulator (`Autorace`). No fairness is assumed of publishers, of the car, of
signals, of deaths and restarts, of who presses a trigger, or of the network.
Strong fairness is assumed of one thing, the Lua code of the state wizard: after
the hook returns, the interpreter executes an instruction before it calls a hook
again, also when the lost update of a signal leaves the hook installed for good.

### Findings

- `fsm_set_state`: a `set_state` made by a state's `update` gives way to an event
  of the same update, one made by `entry` is cleared at the end of `update`;
  the header of `fsm.lua` says it sets the state.
- `state_wizard_exit`: after a signal, machines are exited only if the signal
  came before their turn in a round; during the sleep none is.
- `udp_size`: the last packet of a message is given `size % MAX_BODY_LENGTH` bytes,
  so a message of an exact multiple of the body comes out without its last body;
  `send_all` is "for sending data without size limit". `LastBodyLost` proves it of every
  multiple.

Other things seen while modelling. `WebotsBody.entry` switches the torque of all
joints on (`WebotsBody.lua:225`) after the machine entered `motionIdle`, whose
header says that nothing should be torqued on there.

The signal queue loses a signal that arrives within
`signal_queue = event->next_event`, and at no other place (`IsService`); one at the end
of the hook can leave it installed for good. Neither keeps Ctrl-C from ending the program. A signal
before the registration kills it at once.

Once the gamepad has sent a command the dead-man switch of `motionWebots` is off:
a stamp of the system's clock is never old for the clock of the simulation. Only
the ramp of `sendcmd` stops the robot. It does not when ROS speaks within the
1.5 s after a release (`late` in `NoRunaway`, which TLC finds violated without
it), when the loop of the gamepad stalls for longer than the window leaves room
for, or when its process dies; and a gamepad out of range leaves its last report
in the arrays. A trigger that is read in the middle of a report gives one turn of
the loop with a wrong target.

In shared memory a key is visible before its default is written, so another
process may read zeros for a moment, and a process that found a key missing writes
the default over a value that another one has set since. `WebotsBody.entry` sets
`command_position`, declared with 20 elements (`dcm.lua:41, 53`), with one element per
joint (`WebotsBody.lua:251`): the array is destroyed and constructed elsewhere, every
pointer taken before, the controller's own and `rosio_wizard`'s, leads to freed memory,
and every later start makes it 20 long again and moves it once more. TLC finds
`PointersLive` violated by this when the condition `steady` is dropped.

Further, velocity mode
is on for one step with whatever velocity shared memory holds (the entry step
of `DeadMan`); a message that names some wheels writes back the old velocities of
the others; the gate opens for a step and closes again while a car stays in the
beam; a car that stays on the line, or starts so late that it is first past it when
the game's time is over, finishes without a lap (`past` in `FinishIsLap`); `rand()` has no seed, so a restarted sender repeats its uuids.

## 4. Proofs

| Module | Theorems | From |
|---|---|---|
| `MotionControlProofs` | `TypeCorrect`, `NoReplayCorrect`, `DeadManCorrect`, `LastCommandCorrect`, `Refinement` | `CommandAssumption`, `TimeAssumption`, `LagAssumption` |
| `FsmProofs` | `TypeCorrect`, `OneEnteredCorrect`, `EventsAreCurrentCorrect`, `RequestKeptCorrect` | `FsmAssumption` |
| `MessagingProofs`, of the mailbox | `TypeCorrect`, `CheckKeptCorrect`, `NewerCorrect`, `LastOnItsWayCorrect`, `Refinement` | `MailboxAssumption` |
| `MessagingProofs`, of the UDP transport | `UdpTypeCorrect`, `IntactCorrect`, `LossToleratedCorrect`, `NoMoreThanArrivedCorrect`; `AssembleIsData` and `LastBodyLost`, of the reassembly alone | `UdpAssumption` |
| `JointCommandProofs` | `TypeCorrect`, `ProvenanceCorrect`, `TornOneStepCorrect`, `NoLeftoverCorrect`, `FreshVelocityCorrect` | `WheelAssumption` |
| `SharedMemoryProofs` | `TypeCorrect`, `PointersLiveCorrect`, `SomeoneSurvivesCorrect` | `SegmentAssumption` |
| `TeleopProofs` | `TypeCorrect`, `RosObeyedCorrect`, `NoRunawayCorrect` | `TeleopAssumption` |
| `SignalledWizardProofs` | `TypeCorrect`, `LockstepCorrect`, `NoUpdateAfterSignalCorrect`, `ListWholeCorrect`, `InOrderCorrect`, `NotForgottenCorrect`, `InterruptKeptCorrect`, `ServiceRefinement` | `WizardAssumption`, `SignalAssumption` |
| `AutoraceProofs` | `TypeCorrect`, `FalseStartSeenCorrect`, `FinishIsLapCorrect`, `OneSignCorrect`, `GateOpensCorrect` | `CourseAssumption` |

Each module defines an inductive invariant `IInv` (`UdpInv` for the UDP transport), proves that the initial
predicate implies it and that every action keeps it, one step per action, and
draws the theorems from it.

- `MotionControl`. `DeadMan` is not inductive: that the motors obey a fresh
  command depends on where the loop is, on `teleop_t` being the time at which the
  accepted command was taken up, on messages under way being no older than
  `MaxLag`, and on `hcm` being cleared whenever no command was accepted. These
  are the other parts of the invariant. `LagAssumption` is used once, for
  `NoReplay`.
- `Fsm`. `EventsAreCurrent` needs that events left in the queue during a change of
  state are late ones (the queue was emptied when the target was chosen).
- `Mailbox`. Mutual exclusion, what is copied so far, and one chain of order: the
  last message got, the newest one taken by the thread, the queue, the last one
  published. The refinement puts a message when the flag is set, before its
  parts are copied: nobody can look until the mutex is free. `LastOnItsWay` adds that the
  newest message is the last in the queue, or in the mailbox, and that its flag comes
  down only after it was got (`NewestKept`).
- `UdpTransport`. What the packets under a uuid used once are (`SentUnder`), that
  nothing is known of a uuid before it is used (`Fresh`), and an account of arrivals
  (`Reassembly`): each packet of a message arrived once for every time the message came
  out, and once more if it is kept for the next time. So the kept packets are a proper
  part of the message, the last missing one completes it, and `Intact` follows from
  `AssembleIsData`: bodies joined in order give the message. That is an induction over
  the number of the packet, made over a set of numbers by well-foundedness
  (`LeastNumber`, `InductionOverSet`), which needs no operator as a parameter.
- `JointCommand`. `Provenance` holds of the motors because it holds of each place a
  velocity passes through: rosio's copy, shared memory, the body's copy.
  `NoLeftover` needs what the entry loop has taken out of velocity mode so far.
  `TornOneStep` needs which elements of the two loops of the body agree with
  shared memory so far, as long as rosio wrote nothing. `FreshVelocity` needs which
  wheels the loop of rosio has still to come to.
- `SharedMemory`. `PointersLive` needs that no two arrays share a place (`Apart`), that
  while the segment is steady every array has its declared length (`Fit`), and for each
  process which keys its place in the code says exist and that what it found still is
  what the name leads to (`Sound`, in `PInv`): nobody destroys then. A process that
  replaces what it found is alone, which makes the segment steady when its loop is
  done (`Lone`). `SomeoneSurvives` strengthens "has not
  failed" to "nor is about to": whoever takes the name another one was about to
  construct goes on itself.
- `Teleop`. The age of the last press bounds the age that `sendcmd` keeps, up to one
  turn of the loop, so nothing is sent after `Grace`: that is `RosObeyed`. For
  `NoRunaway` the velocity lies on the ramp: at most `MaxVel - Acc * a`, where `a` is
  the time from the release to the last command sent. When the window closes `a` is
  at least `Window - MaxDt`, and `TeleopAssumption` makes the bound zero.
- `SignalledWizard`. `Lockstep` needs to know which machines had their turn in this
  round: those are exactly one update ahead of the others. It survives a signal in
  the middle of a round because the machines that are behind die in it.
  `NoUpdateAfterSignal` needs that a coroutine is resumed with false only when the flag is
  down, and that after a stray update or an exit none is inside an update (`Over`).
  `InOrder` needs that links lead to later signals and that the beginning of the list
  stays with the hook while an event is handled: a signal that arrives then appends.
  It holds although a signal may be lost. `ListWhole` needs that the list is the events
  from its first to the last that arrived, one link from each to the next, and that what
  was freed came before (`Linked`); the same induction shows that the recursive `Walk`
  meets exactly those (`WalkIsRest`). The refinement `IsService` follows: what waits is
  the list, or the list without its first event while that one was handled and is still
  there. A hook that reads that no event follows finds nothing waiting (`Look`), what
  arrives before it writes the queue is dropped with it (`Lose`), and every other step
  leaves what waits alone, adds to its end or takes its head.
  `InterruptKept` needs that the list cannot become empty before a function has returned,
  and the first that does is `shutdown`. The scheduler starts only when both
  functions are registered, so a signal that kills finds it before its first machine.
- `Autorace`. `OneSign` needs that the number on the radio tells where the car is or
  just was, and that a car behind the second beam was heard there. `GateOpens` needs
  that while the gate is closed its age bounds the time since the sensor was heard.
  `FinishIsLap` needs that nobody is past the line before the start is seen (`NotPast`),
  and that a car that was past it in time and has no lap is on its way round, where the
  beam of the line does not hear it (`StillPast`).

Every invariant and every action property that a passing run checks is proved, except
`MixedInPlace`, and so are the three refinements. Model-checked only are `MixedInPlace`
and liveness (`DriveReached`, `EventLeaves`,
`InterruptEnds`, `AllUpdated`, `LastGot`, `CommandDriven`, `RaceBegins`, `PadDrives`),
which needs `ENABLED`. `LastOnItsWay` and `InterruptKept` are what `LastGot` and
`InterruptEnds` need of every state, and those are proved.

## 5. Not modelled, and plan

Of the implementation files most lines are vendored: LuaJIT (`Dependencies`), the
bindings of ZeroMQ, threads and MessagePack, and the marker tracker
`ar_track_alvar`. They are third-party code that the repository uses as it is, and
no model of them would say anything about this system. Most of the rest converts
data (sensor messages, geometry, printing) or declares it (worlds, configuration,
launch files).

What is left of the plan:

1. `Channels`: `simple_ipc.lua` with events for the machines; `UtilCheck`: crc16
   against its bitwise definition, and dead band, rate limit and approach on
   integers.
2. The arm target and the gripper's mode at the entry of the Arm state, as a
   third part of `hcm`; sticks of the gamepad read in the middle of a report.
3. Proofs: of the liveness properties, the parts that are safety, as `LastOnItsWay` is of
   `LastGot`: what `CommandDriven` and `PadDrives` need of every state.
