------------------------------ MODULE ParamText -------------------------------
(***************************************************************************)
(* The plugin's parameter table and its conversions (pbe-plugin/src/       *)
(* params.c) and the calls a host makes to use them by id (plugin.c).      *)
(* Plain values are whole numbers of a unit finer than any text shows:     *)
(* hundredths of a dB for the gain, tenths of a Hz for the cutoffs.  The   *)
(* normalised range 0 .. 1 has Top + 1 positions, and Scale gives the      *)
(* plain value at each, in place of the linear and logarithmic formulas.   *)
(*                                                                         *)
(* A text is what it says: a number of its last digit, thousands or not,   *)
(* or a word and no number: what is shown at the minimum, if the parameter *)
(* has a word for it.  Spacing and wording are left out.                   *)
(*                                                                         *)
(* BelowToo and KiloDropped are bugs to put in place of the definitions    *)
(* that follow them.                                                       *)
(***************************************************************************)
EXTENDS Integers, FiniteSets

CONSTANTS Params, \* the parameters considered, of 0 .. 2
          Top,    \* the last position
          Scale   \* plain value of each parameter at each position

PARAM_GAIN == 0
PARAM_SPEAKER_CUTOFF == 1
PARAM_BANDPASS_HIGH == 2
PARAM_COUNT == 3

Positions == 0 .. Top

Abs(x) == IF x < 0 THEN -x ELSE x

Param_Info ==
    [p \in 0 .. PARAM_COUNT - 1 |->
        CASE p = PARAM_GAIN ->
                [id |-> 1, min |-> -2400, max |-> 2400, def |-> 600, min_text |-> TRUE]
          [] p = PARAM_SPEAKER_CUTOFF ->
                [id |-> 2, min |-> 200, max |-> 5000, def |-> 1000, min_text |-> FALSE]
          [] p = PARAM_BANDPASS_HIGH ->
                [id |-> 3, min |-> 1000, max |-> 40000, def |-> 5000, min_text |-> FALSE]]

\* Both scales rise from the minimum to the maximum.
ASSUME ScaleAssumption ==
    /\ Params \subseteq 0 .. PARAM_COUNT - 1
    /\ Top \in Nat \ {0}
    /\ Scale \in [Params -> [Positions -> Int]]
    /\ \A p \in Params :
          /\ Scale[p][0] = Param_Info[p].min /\ Scale[p][Top] = Param_Info[p].max
          /\ \A i, j \in Positions : i < j => Scale[p][i] < Scale[p][j]

Param_Clamp(p, plain) ==
    LET info == Param_Info[p]
    IN IF plain < info.min THEN info.min
       ELSE IF plain > info.max THEN info.max ELSE plain

\* The last position not beyond the value, which stands for the interval up to the
\* next: as many steps up as the value has passed.
Param_Normalise(p, plain) ==
    Cardinality({pos \in 1 .. Top : Scale[p][pos] <= Param_Clamp(p, plain)})

BelowToo(pos) == IF pos > Top THEN Top ELSE pos
clamp01(pos) == IF pos < 0 THEN 0 ELSE IF pos > Top THEN Top ELSE pos

Param_Denormalise(p, pos) == Param_Clamp(p, Scale[p][clamp01(pos)])

-------------------------------------------------------------------------------
(* Texts *)

Off == [number |-> 0, kilo |-> FALSE, off |-> TRUE]
Text(number, kilo) == [number |-> number, kilo |-> kilo, off |-> FALSE]

\* printf's rounding of x to a multiple of digit.
Rounded(x, digit) == (x + digit \div 2) \div digit

\* The plain units in the last digit shown: a tenth of a dB, a Hz, ten Hz.
Digit(text) == IF text.kilo THEN 100 ELSE 10

Param_Format(p, value) ==
    LET plain == Param_Clamp(p, value)
        info == Param_Info[p]
    IN IF info.min_text /\ plain <= info.min THEN Off
       ELSE IF p # PARAM_GAIN /\ plain >= 10000 THEN Text(Rounded(plain, 100), TRUE)
       ELSE Text(Rounded(plain, 10), FALSE)

KiloDropped(p, text) == Param_Clamp(p, text.number * 10)
ReadNumber(p, text) == Param_Clamp(p, text.number * Digit(text))

\* A number and its k.  A word is the minimum where the parameter has a word for
\* it, else it cannot be parsed and yields the default.
Param_Parse(p, text) ==
    LET info == Param_Info[p]
    IN IF ~text.off THEN ReadNumber(p, text)
       ELSE IF info.min_text THEN info.min ELSE info.def

-------------------------------------------------------------------------------
(* The host's calls, by id: an id it made up has no parameter *)

Param_IndexFromId(id) ==
    IF \E p \in Params : Param_Info[p].id = id
    THEN CHOOSE p \in Params : Param_Info[p].id = id ELSE -1

cplug_getParameterID(p) == Param_Info[p].id

cplug_normaliseParameterValue(id, plain) ==
    LET p == Param_IndexFromId(id) IN IF p < 0 THEN plain ELSE Param_Normalise(p, plain)

cplug_denormaliseParameterValue(id, pos) ==
    LET p == Param_IndexFromId(id) IN IF p < 0 THEN pos ELSE Param_Denormalise(p, pos)

cplug_parameterValueToString(id, value) ==
    LET p == Param_IndexFromId(id) IN IF p < 0 THEN Text(value, FALSE)
                                      ELSE Param_Format(p, value)

cplug_parameterStringToValue(id, text) ==
    LET p == Param_IndexFromId(id) IN IF p < 0 THEN 0 ELSE Param_Parse(p, text)
===============================================================================
