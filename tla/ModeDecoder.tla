---------------------------- MODULE ModeDecoder ----------------------------
(***************************************************************************)
(* How the decoder (parser.py DanthermDecoder.decode and _update_mode)     *)
(* tells the unit's operating mode from the single register writes (FC06)  *)
(* it overhears.  No register holds the mode: it follows from the commands *)
(* written to register 143, the two fan speeds in registers 66 and 67 that *)
(* the master writes one after the other, the flag in register 76, and the *)
(* time between them.  Any frame may be lost, so every order is possible.  *)
(*                                                                         *)
(* A deadline is kept as the time left, Off when it is over.  All that a   *)
(* frame changes is computed by functions on the record of the decoder's   *)
(* attributes, one for each part of the code, in its order.                *)
(***************************************************************************)
EXTENDS Integers

CONSTANTS
    Extracts, Supplies,     \* fan speeds the master writes, in percent
    QuietBeforeNight,       \* 10 s without an explicit command before a 172
    NightWindow,            \* 2 s for both fan registers after it
    PairWindow,             \* 5 s for the fan pair after 172 or 189
    AutoWindow              \* 2 s from 200 or 205 to 172

ASSUME ModeAssumption ==
    /\ Extracts \subseteq Nat /\ Supplies \subseteq Nat
    /\ QuietBeforeNight \in Nat /\ NightWindow \in Nat
    /\ PairWindow \in Nat /\ AutoWindow \in Nat

VARIABLES
    dec,        \* the decoder's attributes
    shown,      \* operating_mode, fireplace and standby in its data
    command     \* (history) the last command of a level, its pair and its age

vars == <<dec, shown, command>>

Off == -1
Unknown == -1           \* a fan register not heard yet, or no pair
NoPair == <<Unknown, Unknown>>
Modes == {"none", "auto", "manual_1", "manual_2", "manual_3"}
Long == QuietBeforeNight + AutoWindow + 1       \* longer than both

Pairs == (Extracts \cup {Unknown}) \X (Supplies \cup {Unknown})
TimeLeft(window) == Off..window
Heard == SUBSET {66, 67}
Ages == 0..Long

Decoders ==
    [ extract     : Extracts \cup {Unknown},
      supply      : Supplies \cup {Unknown},
      flag        : {0, 1},                     \* _special_mode_flag
      external    : Modes,                      \* _external_mode
      night       : {"none", "on", "off"},      \* night_mode
      nightLeft   : TimeLeft(NightWindow),      \* _night_transition_until
      nightHeard  : Heard,                      \* _night_transition_registers
      manualLeft  : TimeLeft(PairWindow),       \* _pending_manual_until
      manual3Left : TimeLeft(PairWindow),       \* _pending_manual3_until
      autoLeft    : TimeLeft(PairWindow),       \* _pending_auto_until
      start       : Pairs,                      \* the pair at the last command
      explicit    : {0, 189, 200},              \* _last_explicit_command_value
      explicitAge : Ages ]                      \* _last_explicit_command

Labels == {"none", "fireplace", "standby", "auto_or_boost", "auto_or_scheduled",
           "manual_1", "manual_2", "manual_3"}

Fresh ==
    [ extract |-> Unknown, supply |-> Unknown, flag |-> 0, external |-> "none",
      night |-> "none", nightLeft |-> Off, nightHeard |-> {},
      manualLeft |-> Off, manual3Left |-> Off, autoLeft |-> Off,
      start |-> NoPair, explicit |-> 0, explicitAge |-> Long ]

Init ==
    /\ dec = Fresh
    /\ shown = "none"
    /\ command = [kind |-> "none", pair |-> NoPair, age |-> Long, alone |-> FALSE]

-----------------------------------------------------------------------------
\* _fan_pair: a pair only if both registers were heard.
Whole(d) == d.extract # Unknown /\ d.supply # Unknown
FanPair(d) == IF Whole(d) THEN <<d.extract, d.supply>> ELSE NoPair

Distance(p, q) == (p[1] - q[1]) * (p[1] - q[1]) + (p[2] - q[2]) * (p[2] - q[2])

\* pair_changed and manual3_distance <= 100.
Changed_Unasked(d) == d.start = NoPair \/ Distance(FanPair(d), d.start) > 16
Changed(d) == d.start # NoPair /\ Distance(FanPair(d), d.start) > 16
NearLevel3(d) == Distance(FanPair(d), <<85, 73>>) <= 100

ManualPair(p) ==
    IF p = <<25, 13>> THEN "manual_1"
    ELSE IF p = <<55, 43>> THEN "manual_2"
    ELSE "none"

\* The four paragraphs of _update_mode that move timers and _external_mode.
NightJudged(d) ==
    IF d.nightLeft # Off /\ d.nightHeard = {66, 67}
    THEN [d EXCEPT !.night = IF FanPair(d) = <<25, 13>> THEN "on" ELSE "off",
                   !.nightLeft = Off, !.nightHeard = {}]
    ELSE d

ManualTaken(d) ==
    IF d.manualLeft # Off /\ Changed(d) /\ ManualPair(FanPair(d)) # "none"
    THEN [d EXCEPT !.external = ManualPair(FanPair(d)), !.manualLeft = Off, !.start = NoPair]
    ELSE d

Manual3Taken(d, changed) ==
    IF d.manual3Left # Off /\ changed /\ NearLevel3(d)
    THEN [d EXCEPT !.external = "manual_3", !.manual3Left = Off, !.start = NoPair]
    ELSE d

AutoAgain(d, changed) ==
    IF d.external = "manual_3" /\ d.autoLeft # Off /\ changed /\ ~NearLevel3(d)
    THEN [d EXCEPT !.external = "auto", !.autoLeft = Off, !.start = NoPair]
    ELSE d

Updated(d) ==
    IF Whole(d)
    THEN AutoAgain(Manual3Taken(ManualTaken(NightJudged(d)), Changed(d)), Changed(d))
    ELSE d

Label(d) ==
    LET p == FanPair(d) IN
    IF p[1] = 0 /\ p[2] > 0 /\ d.flag = 1 THEN "fireplace"
    ELSE IF p = <<0, 0>> /\ d.flag = 1 THEN "standby"
    ELSE IF p = <<100, 88>> THEN "auto_or_boost"
    ELSE IF d.external = "auto" THEN "auto_or_scheduled"
    ELSE IF d.external # "none" THEN d.external
    ELSE IF ManualPair(p) # "none" THEN ManualPair(p)
    ELSE "auto_or_scheduled"

\* _update_mode, with which every FC06 frame ends.
UpdateMode(d) ==
    /\ dec' = Updated(d)
    /\ shown' = IF Whole(d) THEN Label(Updated(d)) ELSE shown

-----------------------------------------------------------------------------
\* Registers 66 and 67.
FanWritten(d, register, value) ==
    LET extract == IF register = 66 THEN value ELSE d.extract
        supply == IF register = 67 THEN value ELSE d.supply
        heard == IF d.nightLeft # Off THEN d.nightHeard \cup {register} ELSE d.nightHeard
    IN [d EXCEPT !.extract = extract, !.supply = supply, !.nightHeard = heard]

HearFan ==
    /\ \/ \E v \in Extracts : UpdateMode(FanWritten(dec, 66, v))
       \/ \E v \in Supplies : UpdateMode(FanWritten(dec, 67, v))
    /\ UNCHANGED command

\* Register 76.
HearFlag ==
    /\ \E f \in {0, 1} : UpdateMode([dec EXCEPT !.flag = f])
    /\ UNCHANGED command

\* Register 143 with 200 or 205, the first half of a switch to automatic.
Explicit(d, value) == [d EXCEPT !.explicit = value, !.explicitAge = 0]

HearSwitch ==
    /\ UpdateMode(Explicit(dec, 200))
    /\ UNCHANGED command

\* Register 143 with 189: level 3.
Level3_KeepsAuto(d) ==
    [Explicit(d, 189) EXCEPT !.manual3Left = PairWindow, !.start = FanPair(d)]
Level3_OldPair(d) ==
    [Explicit(d, 189) EXCEPT !.manual3Left = PairWindow, !.autoLeft = Off]
Level3(d) ==
    [Explicit(d, 189) EXCEPT !.manual3Left = PairWindow, !.autoLeft = Off,
                             !.start = FanPair(d)]

HearLevel3 ==
    /\ UpdateMode(Level3(dec))
    /\ command' = [ kind |-> "189", pair |-> FanPair(dec), age |-> 0,
                    alone |-> dec.manualLeft = Off ]

\* Register 143 with 172: the second half of a switch to automatic if 200 or 205
\* came shortly before, else level 1 or 2, or the start of the night.
IsAuto(d) == d.explicit = 200 /\ d.explicitAge <= AutoWindow

NightOpened(d) ==
    IF d.explicitAge > QuietBeforeNight
    THEN [d EXCEPT !.nightLeft = NightWindow, !.nightHeard = {}]
    ELSE d

Confirmed(d) ==
    [NightOpened(d) EXCEPT
        !.autoLeft = IF IsAuto(d) THEN PairWindow ELSE Off,
        !.manualLeft = IF IsAuto(d) THEN Off ELSE PairWindow,
        !.manual3Left = Off,
        !.start = FanPair(d),
        !.external = IF IsAuto(d) THEN "auto" ELSE d.external]

HearConfirm ==
    /\ UpdateMode(Confirmed(dec))
    /\ command' = [ kind |-> IF IsAuto(dec) THEN "auto" ELSE "172",
                    pair |-> FanPair(dec), age |-> 0, alone |-> TRUE ]

\* Any other register, or another command: only _update_mode.
HearOther ==
    /\ UpdateMode(dec)
    /\ UNCHANGED command

\* A second passes.
Less(n) == IF n = Off THEN Off ELSE n - 1
Older(n) == IF n < Long THEN n + 1 ELSE n
Tick ==
    /\ dec' = [dec EXCEPT !.nightLeft = Less(dec.nightLeft), !.manualLeft = Less(dec.manualLeft),
                          !.manual3Left = Less(dec.manual3Left), !.autoLeft = Less(dec.autoLeft),
                          !.explicitAge = Older(dec.explicitAge)]
    /\ command' = [command EXCEPT !.age = IF @ <= PairWindow THEN @ + 1 ELSE @]
    /\ UNCHANGED shown

Next == HearFan \/ HearFlag \/ HearSwitch \/ HearLevel3 \/ HearConfirm \/ HearOther \/ Tick

Spec == Init /\ [][Next]_vars

-----------------------------------------------------------------------------
TypeOK ==
    /\ dec \in Decoders
    /\ shown \in Labels
    /\ command \in [ kind : {"none", "189", "172", "auto"},
                     pair : Pairs,
                     age : Nat, alone : BOOLEAN ]

\* A level is taken up only within PairWindow of the last command and with another
\* fan pair than at that command; level 3 only after 189 ("Only label it manual_3
\* after an observed command followed by a changed pair", comment in _update_mode),
\* level 1 or 2 never after a switch to automatic.
LevelIsEarned ==
    [][ dec'.external \notin {dec.external, "auto"}
        => /\ command.age <= PairWindow
           /\ Distance(FanPair(dec'), command.pair) > 16
           /\ command.pair # NoPair
           /\ dec'.external = "manual_3" => command.kind = "189"
           /\ command.kind # "auto" ]_vars

\* A command of level 3 is not missed: if no other command ran at the time and
\* the pair of level 3 is written in time, the decoder shows level 3 when it has heard
\* it, whatever half-written pairs and other frames come between (_update_mode).
Level3IsSeen ==
    command.kind = "189" /\ command.alone /\ command.age <= PairWindow
    /\ command.pair # NoPair /\ NearLevel3(dec) /\ Distance(FanPair(dec), command.pair) > 16
        => shown = "manual_3"

\* No switch to automatic is pending while level 3 is in force or awaited, so the
\* branch of _update_mode that returns from manual_3 to auto is never taken: the
\* switch itself has set the mode before.
AutoIsImmediate ==
    dec.external = "manual_3" \/ dec.manual3Left # Off => dec.autoLeft = Off

=============================================================================
