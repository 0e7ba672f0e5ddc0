-------------------------- MODULE ActiveInference --------------------------
(***************************************************************************)
(* The active-inference monitor of epica-active-inference: the free energy *)
(* of a quad at an observation, the rolling history the next observation   *)
(* is compared with, and the homeostatic reservoir.  Energies are whole    *)
(* numbers of a unit of which Refill make one nat.                         *)
(***************************************************************************)
EXTENDS Propagation

CONSTANTS Divergence,  \* bernoulli_kl: posterior and prior -> energy
          Surprise,    \* minus expected_log_likelihood of a confidence
          Refill,      \* what an observation gives back: 1.0
          Budget,      \* homeostatic_budget
          CapacityIn,  \* history_capacity asked for
          CapacityMin, CapacityMax  \* 16 and 16384

ASSUME ActiveInferenceAssumption ==
    /\ Divergence \in [Conf \X Conf -> Nat]
    /\ \A c \in Conf : Divergence[c, c] = 0
    /\ Surprise \in [Conf -> Nat]
    /\ Refill \in Nat \ {0} /\ Budget \in Nat /\ CapacityIn \in Nat
    /\ CapacityMin \in Nat \ {0} /\ CapacityMax \in Nat /\ CapacityMin <= CapacityMax

-----------------------------------------------------------------------------
(* Free energy *)

\* Noisy-OR over the premises of all paths, each once; 0.5 without any.
StructuralPrior(q, id) ==
    LET parents == SetToSeq((UNION {Range(ps) : ps \in SupportPaths(q, id)}) \cap Live(q))
    IN  IF parents = <<>> THEN Scale \div 2
        ELSE NoisyOr([i \in DOMAIN parents |-> q.nodes[parents[i]].fast])

SumOf(s) ==
    LET sum[i \in 0 .. Len(s)] == IF i = 0 THEN 0 ELSE sum[i - 1] + s[i]
    IN  sum[Len(s)]

QuadFreeEnergy(q, observed) ==
    LET beliefs == SetToSeq(Live(q))
    IN  SumOf([i \in DOMAIN beliefs |->
                 Divergence[q.nodes[beliefs[i]].fast, StructuralPrior(q, beliefs[i])]])
          + Surprise[observed.fast]

-----------------------------------------------------------------------------
(* The monitor *)

Capacity == IF CapacityIn < CapacityMin THEN CapacityMin
            ELSE IF CapacityIn > CapacityMax THEN CapacityMax ELSE CapacityIn

NewMonitor == [history |-> <<>>, reservoir |-> Budget, observations |-> 0]

\* What the mean and the sample deviation of a window are made of.
Moments(window) ==
    [count |-> Len(window), sum |-> SumOf(window),
     squares |-> SumOf([i \in DOMAIN window |-> window[i] * window[i]])]

Uncapped(reservoir, f) == reservoir - f + Refill  \* mutant: quiet times are saved up
Refilled(reservoir, f) ==
    LET left == reservoir - f + Refill IN IF left > Budget THEN Budget ELSE left

BudgetRemaining(reservoir) == IF reservoir < 0 THEN 0 ELSE reservoir

Pushed(history, f) ==
    Append(IF Len(history) = Capacity THEN Tail(history) ELSE history, f)

\* observe: the statistics are those before the observation is pushed.
PushedFirst(m, f) ==  \* mutant: the observation is among what it is compared with
    [monitor |-> [history      |-> Pushed(m.history, f),
                  reservoir    |-> Refilled(m.reservoir, f),
                  observations |-> m.observations + 1],
     signal  |-> [energy    |-> f, past |-> Moments(Pushed(m.history, f)),
                  exceeds   |-> f > Budget,
                  remaining |-> BudgetRemaining(Refilled(m.reservoir, f))]]
Observe(m, f) ==
    [monitor |-> [history      |-> Pushed(m.history, f),
                  reservoir    |-> Refilled(m.reservoir, f),
                  observations |-> m.observations + 1],
     signal  |-> [energy    |-> f, past |-> Moments(m.history),
                  exceeds   |-> f > Budget,
                  remaining |-> BudgetRemaining(Refilled(m.reservoir, f))]]

=============================================================================
