---------------------------- MODULE TraceBuilder ----------------------------
(* How a trace row is built.  The step relation is pure and checks every   *)
(* memory access against the committed root; the builder finds the         *)
(* witnesses it wants by running it again and again, each time with one    *)
(* more witness, and touches its memory image only once a step is          *)
(* accepted.  Around it: exact runs, checkpoints and resumption.           *)
(*                                                                         *)
(* A commitment root is the committed contents and a log root the logged   *)
(* bytes (the hash has no collisions), so an authentication path verifies  *)
(* exactly against the image it was taken from.                            *)
EXTENDS Integers, Sequences, SequencesExt

CONSTANTS
    Addresses, Values,   \* of mutable memory; Values is 0..n
    Scripts,             \* bus accesses of the steps the machine may take
    Inputs,              \* private inputs a builder may be given
    MaxWitnesses,        \* MAX_WITNESSES_PER_STEP
    MaxSteps             \* bound on the steps of one exact run

VARIABLES
    pc,        \* "idle", "row" (between rows), "step" (in step()), "down"
    memory,    \* mutable-memory image of the builder
    state,     \* VM state: committed root, input log, run state
    input,     \* private_input
    script,    \* accesses of the step being built
    plan,      \* witnesses planned for it
    left,      \* rows the exact run still owes
    outcome,   \* how the last call ended
    saved      \* checkpoint: a state and the memory image beside it

vars == <<pc, memory, state, input, script, plan, left, outcome, saved>>

Memories == [Addresses -> Values]
\* Operands of an access: a number, or derived from the value last read.
LastRead == -1
LastReadPlus == -2
Operand(v, last) ==
    IF v = LastRead THEN last
    ELSE IF v = LastReadPlus THEN (last + 1) % (Max(Values) + 1)
    ELSE v

-----------------------------------------------------------------------------
(* StepRelation::apply on a list of witnesses.                             *)

\* What an access asks for: ROM needs no operands here.
Request(a, last) ==
    [op |-> a.op,
     at |-> IF a.op \in {"read", "write"} THEN Operand(a.at, last) ELSE 0,
     value |-> IF a.op = "write" THEN Operand(a.value, last) ELSE 0]

\* The relation takes witness x for request q under the committed root.
Authentic(x, q, root) ==
    CASE q.op = "read"  -> x.op = "read" /\ x.at = q.at /\ x.image = root
      [] q.op = "write" -> /\ x.op = "write" /\ x.at = q.at /\ x.value = q.value
                           /\ x.image = root
      [] OTHER          -> x.op = q.op

\* One access of the executor e.  "fault" is an access the machine does not
\* allow and "stop" the effect of STOP: neither needs a witness.
Access(e, a, witnesses) ==
    LET q == Request(a, e.last)
        x == witnesses[e.used + 1]
        taken == [e EXCEPT !.used = @ + 1]
    IN  CASE e.status # "running" -> e
          [] a.op = "fault" -> [e EXCEPT !.status = "StepError"]
          [] a.op = "stop" -> [e EXCEPT !.run = "Stopped"]
          [] e.used = Len(witnesses) -> [e EXCEPT !.status = "MissingWitness", !.request = q]
          [] ~Authentic(x, q, e.root) -> [e EXCEPT !.status = "Unauthentic"]
          [] a.op = "rom" -> taken
          [] a.op = "read" -> [taken EXCEPT !.last = x.image[x.at]]
          [] a.op = "input" -> [taken EXCEPT !.last = x.value, !.log = Append(@, x.value)]
          [] a.op = "write" -> [taken EXCEPT !.root = [@ EXCEPT ![x.at] = x.value],
                                             !.writes = Append(@, x)]

Apply(before, accesses, witnesses) ==
    LET e == FoldLeft(LAMBDA ex, a : Access(ex, a, witnesses),
                      [status |-> "running", root |-> before.root, log |-> before.log,
                       run |-> before.run, last |-> 0, used |-> 0, writes |-> <<>>,
                       request |-> Request([op |-> "rom"], 0)],
                      accesses)
    IN  IF e.status # "running" THEN e
        ELSE IF e.used # Len(witnesses) THEN [e EXCEPT !.status = "SurplusWitnesses"]
        ELSE [e EXCEPT !.status = "accepted"]

\* Mutant: the input log is not advanced.
AfterForgettingLog(e) == [root |-> e.root, log |-> state.log, run |-> e.run]

After(e) == [root |-> e.root, log |-> e.log, run |-> e.run]

-----------------------------------------------------------------------------
(* Planning and materialising witnesses.                                   *)

\* Mutant: never a copy.
RequiresNoFork(planned) == FALSE

\* A write makes the image stale for every later access.
RequiresMemoryFork(planned) ==
    \E i, j \in 1..Len(planned) :
        i < j /\ planned[i].op = "write" /\ planned[j].op \in {"read", "write"}

\* Witnesses of a plan, taken from the builder's image, or from a copy of it
\* that follows the writes of the plan.
Materialize(planned) ==
    LET forked == RequiresMemoryFork(planned)
        Step(m, p) ==
            [image |-> IF forked /\ p.op = "write" THEN [m.image EXCEPT ![p.at] = p.value]
                       ELSE m.image,
             witnesses |-> Append(m.witnesses,
                 IF p.op = "input" THEN [op |-> "input", value |-> p.value]
                 ELSE IF p.op = "rom" THEN [op |-> "rom"]
                 ELSE [op |-> p.op, at |-> p.at, value |-> p.value, image |-> m.image])]
    IN  FoldLeft(Step, [image |-> memory, witnesses |-> <<>>], planned).witnesses

\* Position in the private input of the next byte the step asks for.
InputPosition ==
    Len(state.log) + Len(SelectSeq(plan, LAMBDA p : p.op = "input")) + 1

-----------------------------------------------------------------------------
Fresh(image) == [root |-> image, log |-> <<>>, run |-> "Running"]

Init ==
    /\ pc = "idle" /\ memory = [a \in Addresses |-> 0] /\ state = Fresh(memory)
    /\ input \in Inputs /\ script = <<>> /\ plan = <<>> /\ left = 0
    /\ outcome = "none"
    /\ saved = [state |-> state, memory |-> memory]

\* run_exact_steps and its siblings; a run of no steps is refused.
RunExact ==
    /\ pc = "idle"
    /\ \E n \in 0..MaxSteps :
         /\ left' = n
         /\ IF n = 0 THEN outcome' = "ZeroStepChunk" /\ UNCHANGED pc
            ELSE outcome' = "none" /\ pc' = "row"
    /\ UNCHANGED <<memory, state, input, script, plan, saved>>

\* Mutant: the rows of the run are not counted.
BeginRowAlways ==
    /\ pc = "row"
    /\ pc' = "step" /\ script' \in Scripts /\ plan' = <<>>
    /\ UNCHANGED <<outcome, memory, state, input, left, saved>>

BeginRow ==
    /\ pc = "row" /\ left > 0
    /\ IF state.run = "Stopped"
       THEN pc' = "idle" /\ outcome' = "Terminated" /\ UNCHANGED <<script, plan>>
       ELSE /\ pc' = "step" /\ script' \in Scripts /\ plan' = <<>>
            /\ UNCHANGED outcome
    /\ UNCHANGED <<memory, state, input, left, saved>>

EndRun ==
    /\ pc = "row" /\ left = 0
    /\ pc' = "idle" /\ outcome' = "boundary"
    /\ UNCHANGED <<memory, state, input, script, plan, left, saved>>

\* The step failed: nothing of it was applied.
Fail(reason) ==
    /\ pc' = "idle" /\ outcome' = reason
    /\ UNCHANGED <<memory, state, plan, left>>

\* Writes of an accepted step, replayed on the image and compared.
ApplyImageEffects(e) ==
    LET Replay(r, w) ==
            IF r.diverged THEN r
            ELSE [image |-> [r.image EXCEPT ![w.at] = w.value], diverged |-> w.image # r.image]
        r == FoldLeft(Replay, [image |-> memory, diverged |-> FALSE], e.writes)
    IN  [r EXCEPT !.diverged = @ \/ r.image # e.root]

\* Mutant: the row is not counted.
AcceptUncounted(e) ==
    /\ state' = After(e) /\ UNCHANGED left
    /\ pc' = "row" /\ plan' = <<>> /\ UNCHANGED outcome

\* The accepted row is the next one of the run.
Accept(e) ==
    /\ state' = After(e) /\ left' = left - 1
    /\ pc' = "row" /\ plan' = <<>> /\ UNCHANGED outcome

\* One round of step(): accepted, one more witness planned, or refused.
Attempt ==
    /\ pc = "step"
    /\ \E witnesses \in {Materialize(plan)} :
       \E e \in {Apply(state, script, witnesses)} :
       \E image \in {ApplyImageEffects(e)} :
           CASE e.status = "accepted" ->
                  /\ memory' = image.image
                  /\ IF image.diverged
                     THEN pc' = "idle" /\ outcome' = "MemoryEffectDivergence"
                          /\ UNCHANGED <<state, plan, left>>
                     ELSE Accept(e)
             [] e.status = "MissingWitness" ->
                  IF Len(plan) >= MaxWitnesses THEN Fail("WitnessBoundExceeded")
                  ELSE IF e.request.op = "input" /\ InputPosition > Len(input)
                  THEN Fail("InputExhausted")
                  ELSE /\ plan' = Append(plan,
                            IF e.request.op = "input"
                            THEN [e.request EXCEPT !.value = input[InputPosition]]
                            ELSE e.request)
                       /\ UNCHANGED <<pc, outcome, memory, state, left>>
             [] OTHER -> Fail(e.status)
    /\ UNCHANGED <<input, script, saved>>

\* Mutant: the memory image beside the state is the previous one.
CheckpointStateOnly ==
    /\ pc = "idle"
    /\ saved' = [saved EXCEPT !.state = state]
    /\ UNCHANGED <<pc, memory, state, input, script, plan, left, outcome>>

\* The caller keeps state() and checkpoint_memory() between two runs.
Checkpoint ==
    /\ pc = "idle"
    /\ saved' = [state |-> state, memory |-> memory]
    /\ UNCHANGED <<pc, memory, state, input, script, plan, left, outcome>>

\* The process ends at any point; only the checkpoint stays.
Crash ==
    /\ pc # "down"
    /\ pc' = "down" /\ outcome' = "none"
    /\ UNCHANGED <<memory, state, input, script, plan, left, saved>>

\* Mutant: only the length of the input is compared.
ResumeAcceptsLength(given) ==
    saved.state.root = saved.memory /\ Len(saved.state.log) <= Len(given)

\* resume: images and input must be those the state has committed to.
ResumeAccepts(given) ==
    /\ saved.state.root = saved.memory
    /\ Len(saved.state.log) <= Len(given)
    /\ SubSeq(given, 1, Len(saved.state.log)) = saved.state.log

Resume ==
    /\ pc = "down"
    /\ \E given \in Inputs :
         IF ResumeAccepts(given)
         THEN /\ pc' = "idle" /\ outcome' = "resumed"
              /\ memory' = saved.memory /\ state' = saved.state /\ input' = given
              /\ script' = <<>> /\ plan' = <<>> /\ left' = 0
         ELSE outcome' = "CheckpointMismatch"
              /\ UNCHANGED <<pc, memory, state, input, script, plan, left>>
    /\ UNCHANGED saved

Next ==
    \/ Crash \/ Resume \/ Checkpoint
    \/ RunExact \/ BeginRow \/ EndRun \/ Attempt

\* The process goes on or ends; a builder never waits.
Spec == Init /\ [][Next]_vars /\ WF_vars(Next)

-----------------------------------------------------------------------------
(* Properties.                                                             *)

Outcomes == {"none", "boundary", "resumed", "ZeroStepChunk", "Terminated", "StepError",
    "InputExhausted", "CheckpointMismatch", "Unauthentic", "SurplusWitnesses",
    "MemoryEffectDivergence", "WitnessBoundExceeded"}
States == [root : Memories, log : Seq(Values), run : {"Running", "Stopped"}]

\* Every variable has its type; a step never plans more witnesses than the
\* relation may ask for.
TypeOK ==
    /\ pc \in {"idle", "row", "step", "down"} /\ outcome \in Outcomes
    /\ memory \in Memories /\ state \in States
    /\ input \in Inputs /\ script \in Scripts \cup {<<>>}
    /\ Len(plan) <= MaxWitnesses /\ left \in 0..MaxSteps
    /\ saved \in [state : States, memory : Memories]

\* Whenever a caller can look, after accepted, refused and interrupted steps
\* alike, the memory image is the one the state has committed to
\* (apply_image_effects, resume) and the input log holds the private input from
\* its start, each byte once, although every attempt at a step plans its input
\* bytes anew (plan).
StateCommitted ==
    pc # "down" => memory = state.root /\ state.log = SubSeq(input, 1, Len(state.log))

\* The planned witnesses are always the ones the relation wants: none is
\* stale, left over or one too many, and the replayed writes agree.
WitnessesSuffice ==
    outcome \notin {"Unauthentic", "SurplusWitnesses", "MemoryEffectDivergence",
                    "WitnessBoundExceeded"}

\* A checkpoint can be resumed with the input the trace was built from.
CheckpointResumable == ResumeAccepts(input)

\* The step as a machine that owns its memory would take it.
Direct ==
    LET Do(d, a) ==
            LET q == Request(a, d.last)
            IN  CASE d.fault -> d
                  [] a.op = "fault" -> [d EXCEPT !.fault = TRUE]
                  [] a.op = "stop" -> [d EXCEPT !.state.run = "Stopped"]
                  [] a.op = "rom" -> d
                  [] a.op = "read" -> [d EXCEPT !.last = d.state.root[q.at]]
                  [] a.op = "write" -> [d EXCEPT !.state.root[q.at] = q.value]
                  [] a.op = "input" ->
                       IF Len(d.state.log) = Len(input) THEN [d EXCEPT !.fault = TRUE]
                       ELSE LET byte == input[Len(d.state.log) + 1]
                            IN  [d EXCEPT !.last = byte, !.state.log = Append(@, byte)]
    IN  FoldLeft(Do, [state |-> state, last |-> 0, fault |-> FALSE], script)

\* Building a row from speculative witnesses has the effect of executing the
\* step directly, or, when the step is impossible, no effect at all; a step
\* that is possible is never refused (TraceBuilder::step).
StepIsDirect ==
    [][pc = "step" /\ pc' \in {"row", "idle"} =>
         IF Direct.fault THEN pc' = "idle" /\ UNCHANGED <<memory, state>>
         ELSE pc' = "row" /\ state' = Direct.state]_vars

\* An exact run ends, with a boundary, an error or its process: neither the
\* rounds of a step nor the rows of a run go on for ever (step, execute_exact).
RunEnds == pc = "row" ~> pc \in {"idle", "down"}
=============================================================================
