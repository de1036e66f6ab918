---------------------------- MODULE BacktestRun ----------------------------
(***************************************************************************)
(* A strategy over a replay: the timeline and what is visible at each step *)
(* (replay/timeline.py, context.py, engine.py) and the loop that executes  *)
(* what is due, asks the strategy, and schedules what the risk gate        *)
(* approves (backtest/runner.py).  A run that ends early - a strategy      *)
(* raises - is resumed at its step with the ledger it had; beside it goes  *)
(* the same run, never interrupted, over the same data and answers.        *)
(***************************************************************************)
EXTENDS Integers, Sequences, FiniteSets, SequencesExt

CONSTANTS
    LastTime,           \* the period is 1 .. LastTime
    Latencies,          \* of the fill models: decision to execution
    MaxResumes          \* bound: interruptions of the run

(* A fill is never attributed to an instant before its decision.           *)
ASSUME BacktestAssumption == Latencies \subseteq Nat /\ LastTime \in Nat

VARIABLES
    latency,        \* of the fill model of this run
    timeline,       \* the market times of the steps, in order
    pinned,         \* the pinned knowledge horizon, 0 in lockstep
    history,        \* the observations of the instrument
    step, stage,    \* where both runs are
    run, straight,  \* the run that is interrupted, and the one that is not
    resumes

backtestVars == <<latency, timeline, pinned, history, step, stage, run, straight, resumes>>

(* K = T, or pinned at a later instant: never before the end.              *)
KnowledgeHorizonAt(market) == IF pinned = 0 THEN market ELSE pinned

VisibleAt(market) ==
    {o \in history : o.observed <= market /\ o.ingested <= KnowledgeHorizonAt(market)}

(* The instants of the period: existing checkpoints or distinct            *)
(* observations, which may be any, or every interval from the start.       *)
Timelines ==
    {t \in UNION {[1 .. n -> 1 .. LastTime] : n \in 0 .. LastTime} :
        \A m, n \in DOMAIN t : m < n => t[m] < t[n]}

Histories ==
    {rows \in SUBSET {o \in [observed : 1 .. LastTime, ingested : 1 .. LastTime + 1] :
                          o.observed <= o.ingested} : Cardinality(rows) <= 1}

Started == [book |-> {}, pending |-> {}, generated |-> {}, rejected |-> {},
            expired |-> {}, outcomes |-> {}]

\* Mutant: clamped to the last step.
ExecutionStepClamped(decided) ==
    LET reached == {n \in DOMAIN timeline : timeline[n] >= decided + latency}
    IN  IF reached = {} THEN Len(timeline) ELSE CHOOSE n \in reached : \A m \in reached : n <= m

(* The first step at or after the decision and the latency, or none.       *)
ExecutionStep(decided) ==
    LET reached == {n \in DOMAIN timeline : timeline[n] >= decided + latency}
    IN  IF reached = {} THEN 0 ELSE CHOOSE n \in reached : \A m \in reached : n <= m

(* What is due is executed against the states of the step: filled if a     *)
(* price is visible, and applied to the book; refused otherwise.           *)
Execute(r) ==
    LET due == {p \in r.pending : p.due = step}
        priced == VisibleAt(timeline[step]) # {}
    IN  [r EXCEPT !.pending = @ \ due,
                  !.outcomes = @ \cup {[intent |-> p.intent, step |-> step, filled |-> priced] : p \in due},
                  !.book = @ \cup {p.intent : p \in {q \in due : priced}}]

(* The account as a strategy sees it: its position.                        *)
Position(r) == Cardinality({i \in r.book : i.side = "BUY"}) - Cardinality({i \in r.book : i.side = "SELL"})

(* The answers are gated by risk and scheduled; one whose step lies past   *)
(* the end expires.                                                        *)
Decide(r, sides, approved) ==
    LET intents == {[side |-> side, decided |-> timeline[step]] : side \in sides}
        passed == {i \in intents : i.side \in approved}
        late == {i \in passed : ExecutionStep(i.decided) = 0}
    IN  [r EXCEPT !.generated = @ \cup intents,
                  !.rejected = @ \cup (intents \ passed),
                  !.expired = @ \cup late,
                  !.pending = @ \cup {[intent |-> i, due |-> ExecutionStep(i.decided)] : i \in passed \ late}]

BacktestInit ==
    /\ latency = 0 /\ timeline = <<>> /\ pinned = 0 /\ history = {}
    /\ step = 0 /\ stage = "idle" /\ resumes = 0
    /\ run = Started /\ straight = Started

StartRun ==
    /\ stage = "idle"
    /\ latency' \in Latencies
    /\ timeline' \in Timelines \ {<<>>}
    /\ pinned' \in {0, LastTime + 1}
    /\ history' \in Histories
    /\ step' = 1
    /\ stage' = "execute"
    /\ UNCHANGED <<run, straight, resumes>>

ExecuteStep ==
    /\ stage = "execute"
    /\ stage' = "decide"
    /\ run' = Execute(run)
    /\ straight' = Execute(straight)
    /\ UNCHANGED <<latency, timeline, pinned, history, step, resumes>>

(* A strategy is a function of what it is given: the state, which is the   *)
(* same in both runs, and the account.                                     *)
DecideStep ==
    /\ stage = "decide"
    /\ \E long, other \in SUBSET {"BUY", "SELL"}, approved \in {{"BUY"}, {"BUY", "SELL"}} :
          LET sides(r) == IF Position(r) > 0 THEN long ELSE other
          IN  /\ run' = Decide(run, sides(run), approved)
              /\ straight' = Decide(straight, sides(straight), approved)
    /\ IF step = Len(timeline) THEN stage' = "over" /\ UNCHANGED step
       ELSE stage' = "execute" /\ step' = step + 1
    /\ UNCHANGED <<latency, timeline, pinned, history, resumes>>

(* The strategy raised: what the runner held is gone, and the step is      *)
(* entered again with the ledger as it was.                                *)
Resume ==
    /\ stage = "decide"
    /\ resumes < MaxResumes
    /\ resumes' = resumes + 1
    /\ run' = [Started EXCEPT !.book = run.book]
    /\ stage' = "decide"
    /\ UNCHANGED <<latency, timeline, pinned, history, step, straight>>

BacktestNext == StartRun \/ ExecuteStep \/ DecideStep \/ Resume

BacktestSpec == BacktestInit /\ [][BacktestNext]_backtestVars
-----------------------------------------------------------------------------
(* Every intent comes to exactly one end, or is still scheduled; and what  *)
(* is executed is executed once, at the first step that lies the latency   *)
(* after the decision and never at the one it was decided in.              *)
IntentsSettleOnce ==
    LET executed == {o.intent : o \in straight.outcomes}
        waiting == {p.intent : p \in straight.pending}
        ends == <<straight.rejected, straight.expired, executed, waiting>>
    IN  /\ straight.generated = UNION {ends[n] : n \in 1 .. 4}
        /\ \A m, n \in 1 .. 4 : m # n => ends[m] \cap ends[n] = {}
        /\ \A o \in straight.outcomes :
              /\ timeline[o.step] >= o.intent.decided + latency
              /\ timeline[o.step] > o.intent.decided
              /\ \A n \in 1 .. o.step - 1 : timeline[n] < o.intent.decided + latency
              /\ o.filled => \E row \in history : row.ingested <= KnowledgeHorizonAt(timeline[o.step])

(* "So a resumed run cannot drift from an uninterrupted one" (runner.py):  *)
(* the books agree at every step.                                          *)
ResumedRunsAgree == run.book = straight.book
=============================================================================
