-------------------------- MODULE SignalEvaluation --------------------------
(***************************************************************************)
(* The signals of one rule over one underlying: signals/evaluation.py with *)
(* the gates of signals/context.py and rules.py and the transition table   *)
(* of lifecycle.py.  What a rule concludes is any outcome; the caller puts *)
(* a signal back under its stream key and remembers strengths.             *)
(***************************************************************************)
EXTENDS Integers, Sequences, FiniteSets, SequencesExt

CONSTANTS
    Horizon,            \* how long a signal lives, in market time
    Persistence,        \* evaluations with strength before CONFIRMED
    MaxNow,             \* bound: the clock
    MaxOccurrences      \* bound: signals of the stream

VARIABLES
    now,        \* when an evaluation runs
    signals,    \* occurrence -> its signal
    priors      \* strengths of earlier evaluations, oldest first

signalVars == <<now, signals, priors>>

PermittedStatus ==
    [FORMING     |-> {"ACTIVE", "FADED", "EXPIRED"},
     ACTIVE      |-> {"ACTIVE", "CONFIRMED", "INVALIDATED", "FADED", "EXPIRED"},
     CONFIRMED   |-> {"CONFIRMED", "INVALIDATED", "FADED", "EXPIRED"},
     INVALIDATED |-> {},
     EXPIRED     |-> {},
     FADED       |-> {}]

IsTerminal(status) == PermittedStatus[status] = {}

SignalInit == now = 1 /\ signals = <<>> /\ priors = <<>>

Outcomes == [met : BOOLEAN, invalidated : BOOLEAN, strength : 0 .. 1]

(* "quality != UNRELIABLE", as every rule of the catalogue requires.       *)
RefusesQuality(quality) == quality = "UNRELIABLE"

AvailableBy(available, K) == available <= K

(* The gates before a rule is asked: the quality of the state, and that    *)
(* its pinned feature was available by K.                                  *)
MayRun(quality, available, K) == ~RefusesQuality(quality) /\ AvailableBy(available, K)

\* Mutant: the first occurrence of the stream, whatever became of it.
LiveFirst == IF signals = <<>> THEN 0 ELSE 1

(* The occurrence an evaluation advances: the newest, unless it ended.     *)
Live ==
    LET newest == Len(signals)
    IN  IF newest = 0 THEN 0 ELSE IF IsTerminal(signals[newest].status) THEN 0 ELSE newest

Sustained(strength) ==
    LET seen == Append(priors, strength)
    IN  Len(seen) >= Persistence /\ \A n \in Len(seen) - Persistence + 1 .. Len(seen) : seen[n] > 0

Target(outcome, T) ==
    LET previous == IF Live = 0 THEN "none" ELSE signals[Live].status
    IN  CASE outcome.invalidated -> "INVALIDATED"
          [] ~outcome.invalidated /\ Live # 0 /\ T >= signals[Live].expires -> "EXPIRED"
          [] ~outcome.invalidated /\ ~(Live # 0 /\ T >= signals[Live].expires) /\ ~outcome.met -> "FORMING"
          [] OTHER -> IF \/ previous = "CONFIRMED"
                         \/ previous = "ACTIVE" /\ Sustained(outcome.strength)
                      THEN "CONFIRMED" ELSE "ACTIVE"

(* apply_transition: one that is not permitted leaves the status as it is. *)
Moved(was, target) == IF target \in PermittedStatus[was] THEN target ELSE was

Written(status, strength, T, K, expires) ==
    [status |-> status, strength |-> strength, market |-> T, horizon |-> K, expires |-> expires]

(* A new signal forms and is moved on at once; to INVALIDATED it cannot    *)
(* be, and the whole batch ends with that error.                           *)
Create(outcome, T, K) ==
    /\ Live = 0
    /\ Len(signals) < MaxOccurrences
    /\ Target(outcome, T) \in {"FORMING"} \cup PermittedStatus["FORMING"]
    /\ signals' = Append(signals, Written(Target(outcome, T), outcome.strength, T, K, T + Horizon))

(* Whatever becomes of the status, all else is refreshed.                  *)
Advance(outcome, T, K) ==
    /\ Live # 0
    /\ LET was == signals[Live].status
           status == Moved(was, Target(outcome, T))
       IN  signals' = [signals EXCEPT ![Live] = Written(status, outcome.strength, T, K, @.expires)]

(* Evaluated with the state of T, as known at K; an evaluation that is     *)
(* gated, or does not fire, changes nothing.                               *)
Evaluate(T, K, quality, available, outcome) ==
    /\ T <= K
    /\ K <= now
    /\ MayRun(quality, available, K)
    /\ Create(outcome, T, K) \/ Advance(outcome, T, K)
    /\ priors' = LET seen == Append(priors, outcome.strength)
                 IN  SubSeq(seen, Max({1, Len(seen) - Persistence + 2}), Len(seen))
    /\ UNCHANGED now

(* States are evaluated in the order of their market time, as known now.   *)
EvaluateLive ==
    \E T \in 1 .. now, quality \in {"OK", "UNRELIABLE"}, delay \in 0 .. 1, outcome \in Outcomes :
        /\ signals # <<>> => signals[Len(signals)].market <= T
        /\ Evaluate(T, now, quality, T + delay, outcome)

TimePasses == now < MaxNow /\ now' = now + 1 /\ UNCHANGED <<signals, priors>>
-----------------------------------------------------------------------------
(* "A signal never returns to FORMING, and never leaves a terminal state": *)
(* of a stream only the newest occurrence lives; one that ended is never   *)
(* touched again, and every other moves as the table lets it.              *)
OccurrencesAreSeparate ==
    [][/\ Len(signals) <= Len(signals') /\ Len(signals') <= Len(signals) + 1
       /\ \A n \in DOMAIN signals :
             LET was == signals[n].status
                 is == signals'[n].status
             IN  /\ n < Len(signals') \/ Len(signals') = Len(signals)
                       \/ IsTerminal(was)
                 /\ IsTerminal(was) => signals'[n] = signals[n]
                 /\ is = was \/ is \in PermittedStatus[was]
       /\ \A n \in DOMAIN signals' :
             n < Len(signals') => IsTerminal(signals'[n].status)]_signalVars
=============================================================================
