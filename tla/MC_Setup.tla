------------------------------ MODULE MC_Setup -------------------------------
(* Configurations for Setup: each mode, and the values at which the setup    *)
(* panics or draws for ever.                                                 *)
EXTENDS Setup

Plain == [mode |-> "None", nodes |-> 4, total |-> 100, zipf |-> 1, validators |-> 3,
          committee |-> 6, others |-> 6,
          types |-> <<>>, colors |-> <<>>, mana |-> <<>>, counts |-> <<>>, speedups |-> <<>>,
          attacker |-> 0, attackerPercent |-> 20, accidental |-> <<>>,
          halfDegree |-> 1, randomness |-> FALSE, peeringAll |-> FALSE]

Adversaries == [Plain EXCEPT !.mode = "Adversary", !.nodes = 6,
                             !.types = <<"ShiftOpinion", "NoGossip">>, !.colors = <<"R", "B">>,
                             !.mana = <<35, 10>>, !.counts = <<2, 1>>, !.speedups = <<1, 1>>]

Accidents == [Plain EXCEPT !.mode = "Accidental", !.zipf = 2,
                           !.accidental = <<Random, MinMana, 7, MaxMana, 1, Random>>]

Attack == [Plain EXCEPT !.mode = "Blowball"]

MCConfigs ==
    \* rings and lattices that are rewired
    {[Plain EXCEPT !.nodes = s[1], !.halfDegree = s[2], !.randomness = TRUE] :
        s \in {<<4, 1>>, <<5, 1>>, <<5, 2>>, <<6, 2>>}}
    \cup {[Adversaries EXCEPT !.peeringAll = b] : b \in BOOLEAN}
    \cup {[Adversaries EXCEPT !.mana = <<>>, !.zipf = z] : z \in {0, 2}}
    \cup {[Adversaries EXCEPT !.speedups = <<1>>],         \* panics
          [Adversaries EXCEPT !.types = <<"ShiftOpinion", "Blowball">>],
          [Adversaries EXCEPT !.counts = <<5, 1>>],
          [Adversaries EXCEPT !.colors = <<"R">>],         \* no adversaries
          [Plain EXCEPT !.validators = 4],                 \* panics
          [Plain EXCEPT !.validators = 0],
          Accidents,
          [Accidents EXCEPT !.accidental = <<Random, Random, Random, Random, Random>>]}
    \cup {[Attack EXCEPT !.attacker = a] : a \in 0 .. 3}   \* the last one panics

=============================================================================
