------------------------------ MODULE PhysicalFault ------------------------------
(***************************************************************************)
(* The two grippers of a bimanual evaluation and the wrapper that injects  *)
(* one physical fault into each of its episodes.  A step of the policy     *)
(* moves the arms, which may be impossible, and then the grippers that are *)
(* authorised; a closing gripper attaches what its sensor detects, if need *)
(* be from the other gripper.  The wrapper delays, prevents or undoes a    *)
(* grasp around that step and audits what became of it.                    *)
(*                                                                         *)
(* What the sensors detect is chosen anew whenever the scene may have      *)
(* moved; poses and displacements are left out.  Where an action is        *)
(* impossible the evaluator holds the joints for one step instead, past    *)
(* the wrapper and the grippers.                                           *)
(***************************************************************************)
EXTENDS Naturals, FiniteSetsExt

CONSTANTS Objects,          \* numbers of the task objects, in their order
          Graspable,        \* those a gripper attaches; others are held by contact
          Kinds,            \* the kinds of fault
          Earliest,         \* earliest_step
          Duration,         \* duration_cycles of a stall
          CloseOccurrence,
          MinGrasped,       \* minimum_grasped_cycles
          Segments,         \* scene motions a fault has to wait for
          Episodes          \* bound: the number of episodes

RelationKinds == {"relation_mismatch", "unexpected_drop"}

ASSUME FaultSpecIsValid ==
  /\ Objects \subseteq Nat /\ Graspable \subseteq Objects
  /\ Kinds \subseteq RelationKinds \cup {"time_stall", "grasp_failure"}
  /\ {Duration, CloseOccurrence, MinGrasped, Episodes} \subseteq Nat \ {0}
  /\ {Earliest, Segments} \subseteq Nat

Arms == {"right", "left"}
Peer(a) == CHOOSE p \in Arms : p # a

VARIABLES
  hands,      \* the grippers, and the closes they have still to resolve
  kind, arm,  \* the fault of this evaluation and the arm it is for
  step,       \* the steps the wrapper has seen, counted up to Earliest
  segments,   \* finished scene motions
  fault,      \* what the wrapper remembers
  audit,      \* what it reports of the fault's effect
  opened,     \* whether the gripper of arm has opened since the fault
  episode

vars == <<hands, kind, arm, step, segments, fault, audit, opened, episode>>

NewHands == [open    |-> [a \in Arms |-> TRUE],
             holds   |-> [a \in Arms |-> {}],
             pending |-> [a \in Arms |-> FALSE]]

NewFault == [triggered |-> FALSE,
             active    |-> 0,        \* cycles of the stall that are left
             closing   |-> FALSE,    \* the previous request was to close
             counted   |-> FALSE,    \* this close is counted
             closes    |-> 0,        \* closes onto a target, up to one too many
             failing   |-> FALSE,    \* the close that misses is going on
             locked    |-> {},       \* objects put back after each step
             targets   |-> {},
             source    |-> "none",
             stable    |-> [source |-> "none", objects |-> {}],
             cycles    |-> 0]        \* how long that has been so

NewAudit == [effect |-> "unknown", restored |-> FALSE, contact |-> 0]

Init == /\ hands = NewHands
        /\ kind \in Kinds /\ arm \in Arms
        /\ step = 0 /\ segments = 0
        /\ fault = NewFault /\ audit = NewAudit
        /\ opened = FALSE
        /\ episode = 1

-----------------------------------------------------------------------------
\* The discrete gripper protocol.

AttemptUnseen(h, a, near, off) ==
  LET detected == near[a] \cap Graspable
      asked == (detected \cup h.holds[Peer(a)]) \cap Graspable
  IN IF ~h.pending[a] \/ a \in off THEN h
     ELSE IF h.holds[a] # {} THEN [h EXCEPT !.pending[a] = FALSE]
     ELSE IF asked = {} THEN h
     ELSE LET o == Min(asked) IN
          [h EXCEPT !.pending[a] = o \notin detected,
                    !.holds[a] = {o} \cap detected,
                    !.holds[Peer(a)] = IF o \in @ THEN {} ELSE @]

AttemptWhileClosed(h, a, near, off) ==
  LET detected == (near[a] \cup h.holds[a]) \cap Graspable
      o == Min(detected)
  IN IF h.open[a] \/ h.holds[a] # {} \/ detected = {} \/ a \in off THEN h
     ELSE [h EXCEPT !.pending[a] = FALSE,
                    !.holds[a] = {o},
                    !.holds[Peer(a)] = IF o \in @ THEN {} ELSE @]

\* A pending close is resolved by the first object the gripper detects, which
\* the other gripper lets go of; gripper off may not attach anything.
Attempt(h, a, near, off) ==
  LET detected == (near[a] \cup h.holds[a]) \cap Graspable
      o == Min(detected)
  IN IF ~h.pending[a] \/ a \in off THEN h
     ELSE IF h.holds[a] # {} THEN [h EXCEPT !.pending[a] = FALSE]
     ELSE IF detected = {} THEN h
     ELSE [h EXCEPT !.pending[a] = FALSE,
                    !.holds[a] = {o},
                    !.holds[Peer(a)] = IF o \in @ THEN {} ELSE @]

AttemptBoth(h, near, off) == Attempt(Attempt(h, "right", near, off), "left", near, off)

\* want[a] is TRUE when gripper a shall be open.
Gripper(h, want, near, off) ==
  LET changed == {a \in Arms : h.open[a] # want[a]}
      asked == [h EXCEPT
                  !.pending = [a \in Arms |-> IF a \in changed THEN ~want[a] ELSE @[a]],
                  !.holds = [a \in Arms |-> IF a \in changed /\ want[a] THEN {} ELSE @[a]]]
      first == AttemptBoth(asked, near, off)
  IN IF changed = {} THEN first
     ELSE AttemptBoth([first EXCEPT !.open = want], near, off)

\* A gripper without authorisation keeps what it does; without any, none acts.
EnvironmentStep(h, want, authorised, near, off) ==
  IF authorised = {} THEN h
  ELSE Gripper(h, [a \in Arms |-> IF a \in authorised THEN want[a] ELSE h.open[a]],
               near, off)

-----------------------------------------------------------------------------
\* The fault, before the step: what the wrapper remembers then, if the policy
\* asks for a close and the sensor of the arm shows the objects in look.  What
\* it counts to find the cycle of the fault is of no use after it, and dropped.

\* The arm is stopped where it is when it is asked for a motion.
Stalled(moving) ==
  LET fires == ~fault.triggered /\ step >= Earliest /\ moving
      left == IF fires THEN Duration ELSE fault.active
  IN [fault EXCEPT !.triggered = @ \/ fires,
                   !.active = IF left > 0 THEN left - 1 ELSE 0]

\* A close onto a target misses it until an open is requested.
MissedGrasp(close, look) ==
  LET counted == fault.counted /\ (fault.closing \/ ~close)
      fresh == close /\ ~counted /\ look # {}
      closes == IF fresh THEN Min({fault.closes + 1, CloseOccurrence + 1})
                ELSE fault.closes
      fires == /\ ~fault.triggered
               /\ step >= Earliest
               /\ closes = CloseOccurrence
               /\ close /\ look # {}
      failing == (fault.failing \/ fires) /\ close
  IN IF ~fault.triggered /\ ~fires
     THEN [fault EXCEPT !.closing = close,
                        !.counted = close /\ (counted \/ fresh),
                        !.closes = closes]
     ELSE IF failing
     THEN [NewFault EXCEPT !.triggered = TRUE,
                           !.failing = TRUE,
                           !.targets = fault.targets \cup look,
                           !.locked = fault.locked \cup (look \ hands.holds[Peer(arm)])]
     ELSE [NewFault EXCEPT !.triggered = TRUE]

\* An interaction that has been stable long enough is undone.
Loosened(close, look) ==
  LET held == hands.holds[arm]
      targets == IF held # {} THEN held ELSE IF close THEN look ELSE {}
      stable == IF targets = {} THEN NewFault.stable
                ELSE [source |-> IF held # {} THEN "attachment" ELSE "contact",
                      objects |-> targets]
      cycles == IF targets = {} THEN 0
                ELSE IF stable # fault.stable THEN 1
                ELSE Min({fault.cycles + 1, MinGrasped})
      fires == ~fault.triggered /\ step >= Earliest /\ cycles >= MinGrasped
  IN IF fault.triggered THEN fault
     ELSE IF fires
     THEN [NewFault EXCEPT !.triggered = TRUE,
                           !.targets = targets,
                           !.source = stable.source]
     ELSE [fault EXCEPT !.stable = stable, !.cycles = cycles]

Injected(close, look, moving) ==
  IF kind = "time_stall" THEN Stalled(moving)
  ELSE IF kind = "grasp_failure" THEN MissedGrasp(close, look)
  ELSE Loosened(close, look)

Loosens(f) == kind \in RelationKinds /\ f.triggered /\ ~fault.triggered

-----------------------------------------------------------------------------
\* The audit, after the step that left the grippers at h.

\* Objects that were to be missed are put back, and taken from the arm.
PutBack(f, h) ==
  IF kind = "grasp_failure" /\ f.failing /\ f.locked \cap h.holds[arm] # {}
  THEN [h EXCEPT !.holds[arm] = {}] ELSE h

AuditedStall(f) ==
  [audit EXCEPT !.effect = IF f.triggered THEN "seen" ELSE @]

AuditedGrasp(f, h) ==
  LET missed == f.failing /\ (f.locked # {} \/ f.targets \cap h.holds[arm] = {})
      effect == IF missed THEN "seen" ELSE audit.effect
  IN [audit EXCEPT !.effect = effect,
                   !.restored = @ \/ (effect = "seen" /\ ~f.failing /\ h.holds[arm] # {})]

AuditedByContact(f, h, near, displaced) ==
  LET detached == IF f.source = "attachment" THEN f.targets \cap h.holds[arm] = {}
                  ELSE h.open[arm]
      touched == ~h.open[arm] /\ f.targets \subseteq near[arm] \cup h.holds[arm]
      contact == IF touched THEN Min({audit.contact + 1, MinGrasped}) ELSE 0
  IN IF ~f.triggered THEN audit
     ELSE IF audit.effect = "unknown"
     THEN [audit EXCEPT !.effect = IF detached /\ displaced THEN "seen" ELSE "unseen"]
     ELSE [audit EXCEPT !.contact = contact, !.restored = @ \/ contact >= MinGrasped]

\* The first audit decides whether the fault had its effect: displaced tells
\* whether the objects are where the mismatch has put them.
AuditedRelation(f, h, near, displaced) ==
  LET detached == IF f.source = "attachment" THEN f.targets \cap h.holds[arm] = {}
                  ELSE h.open[arm]
      touched == ~h.open[arm] /\ f.targets \subseteq near[arm] \cup h.holds[arm]
      contact == IF touched THEN Min({audit.contact + 1, MinGrasped}) ELSE 0
      back == IF f.source = "attachment" THEN ~detached ELSE contact >= MinGrasped
  IN IF ~f.triggered THEN audit
     ELSE IF audit.effect = "unknown"
     THEN [audit EXCEPT !.effect = IF detached /\ displaced THEN "seen" ELSE "unseen"]
     ELSE [audit EXCEPT !.contact = IF f.source = "contact" THEN contact ELSE @,
                        !.restored = @ \/ (audit.effect = "seen" /\ back)]

Audited(f, h, near, displaced) ==
  IF kind = "time_stall" THEN AuditedStall(f)
  ELSE IF kind = "grasp_failure" THEN AuditedGrasp(f, h)
  ELSE AuditedRelation(f, h, near, displaced)

-----------------------------------------------------------------------------
\* The steps of an episode.

HasOpened == opened' = (fault'.triggered /\ (opened \/ hands'.open[arm]))

\* Until the scene has moved, the wrapper only counts.
Undisturbed(want, authorised, near) ==
  /\ segments < Segments
  /\ hands' = EnvironmentStep(hands, want, authorised, near, {})
  /\ step' = Min({step + 1, Earliest})
  /\ UNCHANGED <<kind, arm, segments, fault, audit, opened, episode>>

\* A relation is loosened before the step, and its gripper opened by the step.
Disturbed(want, authorised, look, near, moving, displaced) ==
  LET f == Injected(~want[arm], look \cup hands.holds[arm], moving)
      loose == Loosens(f)
      off == IF kind = "grasp_failure" /\ f.failing THEN {arm} ELSE {}
      h == EnvironmentStep(IF loose THEN [hands EXCEPT !.holds[arm] = {}] ELSE hands,
                           IF loose THEN [want EXCEPT ![arm] = TRUE] ELSE want,
                           IF loose THEN authorised \cup {arm} ELSE authorised,
                           near, off)
  IN /\ segments >= Segments
     /\ fault' = f
     /\ hands' = PutBack(f, h)
     /\ audit' = Audited(f, hands', near, displaced)
     /\ HasOpened
     /\ step' = Min({step + 1, Earliest})
     /\ UNCHANGED <<kind, arm, segments, episode>>

\* The arms cannot follow: the grippers get no command, and the wrapper does
\* not see that its step has come to nothing.
Impossible(close, look, moving) ==
  /\ segments >= Segments
  /\ fault' = Injected(close, look \cup hands.holds[arm], moving)
  /\ hands' = IF Loosens(fault') THEN [hands EXCEPT !.holds[arm] = {}] ELSE hands
  /\ audit' = IF kind = "time_stall" THEN AuditedStall(fault') ELSE audit
  /\ HasOpened
  /\ UNCHANGED <<kind, arm, step, segments, episode>>

SceneMotion == /\ segments < Segments
               /\ segments' = segments + 1
               /\ UNCHANGED <<hands, kind, arm, step, fault, audit, opened, episode>>

\* The next episode has a new wrapper and resets the robot, not the closes that
\* the gripper mode has still to resolve.
NextEpisode == /\ episode < Episodes
               /\ episode' = episode + 1
               /\ hands' = [NewHands EXCEPT !.pending = hands.pending]
               /\ step' = 0 /\ segments' = 0
               /\ fault' = NewFault /\ audit' = NewAudit
               /\ opened' = FALSE
               /\ UNCHANGED <<kind, arm>>

\* What a step may meet; what makes no difference to a kind of fault is fixed.
Commands == {c \in [Arms -> BOOLEAN] \X SUBSET Arms : Peer(arm) \in c[2] \/ c[1][Peer(arm)]}
Nears == {n \in [Arms -> SUBSET Objects] : n[Peer(arm)] \subseteq Graspable}
Looks == IF kind = "time_stall" THEN {{}} ELSE SUBSET Objects
Motions == IF kind = "time_stall" THEN BOOLEAN ELSE {FALSE}
Displacements == IF kind = "relation_mismatch" THEN BOOLEAN ELSE {TRUE}

Next ==
  \/ SceneMotion \/ NextEpisode
  \/ \E c \in Commands, near \in Nears :
       \/ Undisturbed(c[1], c[2], near)
       \/ \E look \in Looks, moving \in Motions, displaced \in Displacements :
            Disturbed(c[1], c[2], look, near, moving, displaced)
  \/ \E close \in BOOLEAN, look \in Looks, moving \in Motions :
       Impossible(close, look, moving)

Spec == Init /\ [][Next]_vars

-----------------------------------------------------------------------------
\* The variables hold values of their types.
TypeOK ==
  /\ hands \in [open : [Arms -> BOOLEAN], holds : [Arms -> SUBSET Graspable],
                pending : [Arms -> BOOLEAN]]
  /\ \A a \in Arms : Cardinality(hands.holds[a]) <= 1
  /\ kind \in Kinds /\ arm \in Arms
  /\ step \in 0 .. Earliest /\ segments \in 0 .. Segments
  /\ fault.active \in 0 .. Duration /\ fault.cycles \in 0 .. MinGrasped
  /\ fault.closes \in 0 .. CloseOccurrence + 1
  /\ fault.locked \subseteq fault.targets /\ fault.targets \subseteq Objects
  /\ fault.failing => fault.triggered
  /\ audit.effect \in {"unknown", "seen", "unseen"}
  /\ audit.contact \in 0 .. MinGrasped
  /\ audit.restored => audit.effect = "seen"
  /\ opened \in BOOLEAN /\ episode \in 1 .. Episodes

\* An object leaves a gripper only when that gripper opens, when the other one
\* takes it, by the one fault of the episode, which spares the other arm, or
\* when the scene is reset; no object is in two grippers, and a gripper whose
\* grasp is to fail attaches nothing (ProtocolBimanualDiscrete.action,
\* runtime.py:2033; FaultInjectingTaskEnvironment.step).
GripsHaveCauses ==
  [][/\ hands'.holds["left"] \cap hands'.holds["right"] = {}
     /\ \A a \in Arms : \A o \in hands.holds[a] \ hands'.holds[a] :
          \/ ~hands.open[a] /\ hands'.open[a]
          \/ o \in hands'.holds[Peer(a)]
          \/ a = arm /\ (fault'.failing \/ fault'.triggered # fault.triggered)
          \/ episode' # episode
     /\ fault'.failing => hands'.holds[arm] \subseteq hands.holds[arm]]_vars

\* The audit reports a relation fault as overcome only when the gripper has been
\* open since, so that the relation is a new one; an action that was impossible
\* in the cycle of the fault does not make it so (_audit_physical_effect).
RestoredByNewGrasp ==
  audit.restored /\ kind \in RelationKinds => opened

\* A close that found nothing is retried until the gripper attaches or opens again
\* (metadata of the gripper protocol): a gripper that is open attaches nothing.
OpenGripperAttachesNothing ==
  \A a \in Arms : hands.open[a] => hands.holds[a] = {}
=================================================================================
