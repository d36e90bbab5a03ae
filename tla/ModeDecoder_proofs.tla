------------------------- MODULE ModeDecoder_proofs -------------------------
(***************************************************************************)
(* Theorems about ModeDecoder, for all fan speeds and all windows, under   *)
(* the assumption ModeAssumption alone: types, that no level is taken up   *)
(* without its command, that a command of level 3 is not missed, and that  *)
(* no switch to automatic stays pending while level 3 is in force.         *)
(***************************************************************************)
EXTENDS ModeDecoder, TLAPS

\* The windows for a fan pair are those of the last command, and what a pair is
\* compared with is the pair of that command.
WindowsFollowCommand ==
    /\ dec.start \in {NoPair, command.pair}
    /\ dec.manual3Left # Off =>
        command.kind = "189" /\ command.age + dec.manual3Left <= PairWindow
    /\ dec.manualLeft # Off =>
        command.kind \in {"172", "189"} /\ command.age + dec.manualLeft <= PairWindow

ModeInv == TypeOK /\ WindowsFollowCommand /\ AutoIsImmediate

-----------------------------------------------------------------------------
\* No pair and no deadline are values of their types.
LEMMA NoPairType == NoPair \in Pairs /\ Off \in TimeLeft(PairWindow)
BY ModeAssumption DEF NoPair, Pairs, Off, TimeLeft

\* A decoder remains one when a single attribute is set to a value of its type.
LEMMA OneAttributeSet ==
    ASSUME NEW d \in Decoders,
           NEW night \in TimeLeft(NightWindow), NEW left \in TimeLeft(PairWindow),
           NEW explicit \in {0, 189, 200}, NEW age \in Ages
    PROVE  /\ [d EXCEPT !.nightLeft = night] \in Decoders
           /\ [d EXCEPT !.manualLeft = left] \in Decoders
           /\ [d EXCEPT !.manual3Left = left] \in Decoders
           /\ [d EXCEPT !.autoLeft = left] \in Decoders
           /\ [d EXCEPT !.explicit = explicit] \in Decoders
           /\ [d EXCEPT !.explicitAge = age] \in Decoders
<1>1. [d EXCEPT !.nightLeft = night] \in Decoders
  BY DEF Decoders
<1>2. [d EXCEPT !.manualLeft = left] \in Decoders
  BY DEF Decoders
<1>3. [d EXCEPT !.manual3Left = left] \in Decoders
  BY DEF Decoders
<1>4. [d EXCEPT !.autoLeft = left] \in Decoders
  BY DEF Decoders
<1>5. [d EXCEPT !.explicit = explicit] \in Decoders
  BY DEF Decoders
<1>6. [d EXCEPT !.explicitAge = age] \in Decoders
  BY DEF Decoders
<1> QED
  BY <1>1, <1>2, <1>3, <1>4, <1>5, <1>6

\* What is not heard whole is no pair.
LEMMA FanPairType ==
    ASSUME NEW d \in Decoders
    PROVE  FanPair(d) \in Pairs
BY NoPairType DEF FanPair, Pairs, Decoders, Whole

\* The pair itself is at no distance, so the frame of a command never brings a
\* change with it.
LEMMA NoDistance == ASSUME NEW x \in Int, NEW y \in Int PROVE Distance(<<x, y>>, <<x, y>>) = 0
<1>1. x - x = 0 /\ y - y = 0
  OBVIOUS
<1> QED
  BY <1>1 DEF Distance

LEMMA UnchangedPair ==
    ASSUME NEW d \in Decoders, d.start = FanPair(d)
    PROVE  ~Changed(d)
<1>1. PICK x \in Extracts \cup {Unknown}, y \in Supplies \cup {Unknown} : FanPair(d) = <<x, y>>
  BY FanPairType DEF Pairs
<1>2. x \in Int /\ y \in Int
  BY ModeAssumption DEF Unknown
<1>3. Distance(FanPair(d), d.start) = 0
  BY <1>1, <1>2, NoDistance
<1> QED
  BY <1>3 DEF Changed

\* _update_mode for a whole pair, a paragraph at a time.
SameHeard(e, d) ==
    /\ e.extract = d.extract /\ e.supply = d.supply /\ e.flag = d.flag
    /\ e.explicit = d.explicit /\ e.explicitAge = d.explicitAge

LEMMA NightFields ==
    ASSUME NEW d \in Decoders
    PROVE  /\ NightJudged(d) \in Decoders
           /\ SameHeard(NightJudged(d), d)
           /\ NightJudged(d).external = d.external
           /\ NightJudged(d).manualLeft = d.manualLeft
           /\ NightJudged(d).manual3Left = d.manual3Left
           /\ NightJudged(d).autoLeft = d.autoLeft
           /\ NightJudged(d).start = d.start
<1>1. Off \in TimeLeft(NightWindow) /\ {} \in Heard
  BY ModeAssumption DEF Off, TimeLeft, Heard
<1> DEFINE night == IF FanPair(d) = <<25, 13>> THEN "on" ELSE "off"
           e == [d EXCEPT !.night = night, !.nightLeft = Off, !.nightHeard = {}]
<1>2. night \in {"on", "off"}
  OBVIOUS
<1>3. NightJudged(d) \in {d, e}
  BY DEF NightJudged
<1> HIDE DEF night
<1>4. e \in Decoders
  BY <1>1, <1>2 DEF Decoders
<1>5. /\ SameHeard(e, d)
      /\ e.external = d.external /\ e.manualLeft = d.manualLeft
      /\ e.manual3Left = d.manual3Left /\ e.autoLeft = d.autoLeft /\ e.start = d.start
  BY DEF Decoders, SameHeard
<1> HIDE DEF e
<1> QED
  BY <1>3, <1>4, <1>5 DEF SameHeard

LEMMA ManualFields ==
    ASSUME NEW d \in Decoders
    PROVE  /\ ManualTaken(d) \in Decoders
           /\ SameHeard(ManualTaken(d), d)
           /\ ManualTaken(d).manualLeft \in {d.manualLeft, Off}
           /\ ManualTaken(d).manual3Left = d.manual3Left
           /\ ManualTaken(d).autoLeft = d.autoLeft
           /\ ManualTaken(d).start \in {d.start, NoPair}
           /\ \/ ManualTaken(d).external = d.external
              \/ /\ ManualTaken(d).external \in {"manual_1", "manual_2"}
                 /\ Changed(d) /\ d.manualLeft # Off
<1>1. NoPair \in Pairs /\ Off \in TimeLeft(PairWindow)
  BY NoPairType
<1> DEFINE level == ManualPair(FanPair(d))
           e == [d EXCEPT !.external = level, !.manualLeft = Off, !.start = NoPair]
<1>2. level # "none" => level \in {"manual_1", "manual_2"}
  BY DEF ManualPair
<1>3. \/ ManualTaken(d) = d
      \/ ManualTaken(d) = e /\ level # "none" /\ Changed(d) /\ d.manualLeft # Off
  BY DEF ManualTaken
<1> HIDE DEF level
<1>4. level # "none" => e \in Decoders
  BY <1>1, <1>2 DEF Decoders, Modes
<1>5. /\ SameHeard(e, d)
      /\ e.external = level /\ e.manualLeft = Off
      /\ e.manual3Left = d.manual3Left /\ e.autoLeft = d.autoLeft /\ e.start = NoPair
  BY DEF Decoders, SameHeard
<1> HIDE DEF e
<1> QED
  BY <1>2, <1>3, <1>4, <1>5 DEF SameHeard

LEMMA Manual3Fields ==
    ASSUME NEW d \in Decoders, NEW changed \in BOOLEAN
    PROVE  /\ Manual3Taken(d, changed) \in Decoders
           /\ SameHeard(Manual3Taken(d, changed), d)
           /\ Manual3Taken(d, changed).manualLeft = d.manualLeft
           /\ Manual3Taken(d, changed).manual3Left \in {d.manual3Left, Off}
           /\ Manual3Taken(d, changed).autoLeft = d.autoLeft
           /\ Manual3Taken(d, changed).start \in {d.start, NoPair}
           /\ \/ Manual3Taken(d, changed).external = d.external
              \/ /\ Manual3Taken(d, changed).external = "manual_3"
                 /\ changed /\ d.manual3Left # Off
<1>1. NoPair \in Pairs /\ Off \in TimeLeft(PairWindow)
  BY NoPairType
<1> DEFINE e == [d EXCEPT !.external = "manual_3", !.manual3Left = Off, !.start = NoPair]
<1>2. \/ Manual3Taken(d, changed) = d
      \/ Manual3Taken(d, changed) = e /\ changed /\ d.manual3Left # Off
  BY DEF Manual3Taken
<1>3. e \in Decoders
  BY <1>1 DEF Decoders, Modes
<1>4. /\ SameHeard(e, d)
      /\ e.external = "manual_3" /\ e.manualLeft = d.manualLeft
      /\ e.manual3Left = Off /\ e.autoLeft = d.autoLeft /\ e.start = NoPair
  BY DEF Decoders, SameHeard
<1> HIDE DEF e
<1> QED
  BY <1>2, <1>3, <1>4 DEF SameHeard

LEMMA AutoFields ==
    ASSUME NEW d \in Decoders, NEW changed \in BOOLEAN
    PROVE  /\ AutoAgain(d, changed) \in Decoders
           /\ SameHeard(AutoAgain(d, changed), d)
           /\ AutoAgain(d, changed).manualLeft = d.manualLeft
           /\ AutoAgain(d, changed).manual3Left = d.manual3Left
           /\ AutoAgain(d, changed).autoLeft \in {d.autoLeft, Off}
           /\ AutoAgain(d, changed).start \in {d.start, NoPair}
           /\ AutoAgain(d, changed).external \in {d.external, "auto"}
<1>1. NoPair \in Pairs /\ Off \in TimeLeft(PairWindow)
  BY NoPairType
<1> DEFINE e == [d EXCEPT !.external = "auto", !.autoLeft = Off, !.start = NoPair]
<1>2. AutoAgain(d, changed) \in {d, e}
  BY DEF AutoAgain
<1>3. e \in Decoders
  BY <1>1 DEF Decoders, Modes
<1>4. /\ SameHeard(e, d)
      /\ e.external = "auto" /\ e.manualLeft = d.manualLeft
      /\ e.manual3Left = d.manual3Left /\ e.autoLeft = Off /\ e.start = NoPair
  BY DEF Decoders, SameHeard
<1> HIDE DEF e
<1> QED
  BY <1>2, <1>3, <1>4 DEF SameHeard

-----------------------------------------------------------------------------
\* What _update_mode as a whole does to a decoder.
LEMMA UpdatedFields ==
    ASSUME NEW d \in Decoders
    PROVE  /\ Updated(d) \in Decoders
           /\ SameHeard(Updated(d), d)
           /\ Updated(d).manualLeft \in {d.manualLeft, Off}
           /\ Updated(d).manual3Left \in {d.manual3Left, Off}
           /\ Updated(d).autoLeft \in {d.autoLeft, Off}
           /\ Updated(d).start \in {d.start, NoPair}
           /\ \/ Updated(d).external \in {d.external, "auto"}
              \/ /\ Updated(d).external \in {"manual_1", "manual_2"}
                 /\ Changed(d) /\ d.manualLeft # Off
              \/ /\ Updated(d).external = "manual_3"
                 /\ Changed(d) /\ d.manual3Left # Off
<1> DEFINE n == NightJudged(d)
           m == ManualTaken(n)
           h == Manual3Taken(m, Changed(d))
           a == AutoAgain(h, Changed(d))
<1>1. CASE ~Whole(d)
  BY <1>1 DEF Updated, SameHeard
<1>2. CASE Whole(d)
  <2>1. Changed(d) \in BOOLEAN
    BY DEF Changed
  <2>2. /\ n \in Decoders /\ SameHeard(n, d) /\ n.external = d.external
        /\ n.manualLeft = d.manualLeft /\ n.manual3Left = d.manual3Left
        /\ n.autoLeft = d.autoLeft /\ n.start = d.start
    BY NightFields
  <2>3. Changed(n) = Changed(d)
    BY <2>2 DEF Changed, FanPair, Whole, SameHeard
  <2>4. /\ m \in Decoders /\ SameHeard(m, n)
        /\ m.manualLeft \in {n.manualLeft, Off} /\ m.manual3Left = n.manual3Left
        /\ m.autoLeft = n.autoLeft /\ m.start \in {n.start, NoPair}
        /\ \/ m.external = n.external
           \/ m.external \in {"manual_1", "manual_2"} /\ Changed(d) /\ n.manualLeft # Off
    BY <2>2, <2>3, ManualFields
  <2>5. /\ h \in Decoders /\ SameHeard(h, m)
        /\ h.manualLeft = m.manualLeft /\ h.manual3Left \in {m.manual3Left, Off}
        /\ h.autoLeft = m.autoLeft /\ h.start \in {m.start, NoPair}
        /\ \/ h.external = m.external
           \/ h.external = "manual_3" /\ Changed(d) /\ m.manual3Left # Off
    BY <2>1, <2>4, Manual3Fields
  <2>6. /\ a \in Decoders /\ SameHeard(a, h)
        /\ a.manualLeft = h.manualLeft /\ a.manual3Left = h.manual3Left
        /\ a.autoLeft \in {h.autoLeft, Off} /\ a.start \in {h.start, NoPair}
        /\ a.external \in {h.external, "auto"}
    BY <2>1, <2>5, AutoFields
  <2>7. Updated(d) = a
    BY <1>2 DEF Updated
  <2> HIDE DEF n, m, h, a
  <2>8. SameHeard(a, d)
    BY <2>2, <2>4, <2>5, <2>6 DEF SameHeard
  <2> QED
    BY <2>2, <2>4, <2>5, <2>6, <2>7, <2>8
<1> QED
  BY <1>1, <1>2

-----------------------------------------------------------------------------
Commands == [ kind : {"none", "189", "172", "auto"}, pair : Pairs, age : Nat, alone : BOOLEAN ]

\* What the invariant says of a decoder and a command.
Fits(d, c) ==
    /\ d.start \in {NoPair, c.pair}
    /\ d.manual3Left # Off => c.kind = "189" /\ c.age + d.manual3Left <= PairWindow
    /\ d.manualLeft # Off => c.kind \in {"172", "189"} /\ c.age + d.manualLeft <= PairWindow
    /\ d.external = "manual_3" \/ d.manual3Left # Off => d.autoLeft = Off

LEMMA InvIsFit == ModeInv <=> TypeOK /\ Fits(dec, command)
BY DEF ModeInv, WindowsFollowCommand, AutoIsImmediate, Fits

LEMMA LabelType == ASSUME NEW d \in Decoders PROVE Label(d) \in Labels
<1>1. d.external \in Modes
  BY DEF Decoders
<1> QED
  BY <1>1 DEF Label, Labels, Modes, ManualPair

\* A frame that fits the command fits it after _update_mode too.
LEMMA UpdateKeepsInv ==
    ASSUME NEW d \in Decoders, TypeOK, UpdateMode(d), command' \in Commands, Fits(d, command')
    PROVE  ModeInv'
<1>1. dec' = Updated(d) /\ dec' \in Decoders
  BY UpdatedFields DEF UpdateMode
<1>2. shown' \in Labels
  BY <1>1, LabelType DEF UpdateMode, TypeOK
<1>3. TypeOK'
  BY <1>1, <1>2 DEF TypeOK, Commands
<1>4. Fits(dec', command')
  <2>1. /\ dec'.manualLeft \in {d.manualLeft, Off}
        /\ dec'.manual3Left \in {d.manual3Left, Off}
        /\ dec'.autoLeft \in {d.autoLeft, Off}
        /\ dec'.start \in {d.start, NoPair}
        /\ \/ dec'.external \in {d.external, "auto"}
           \/ dec'.external \in {"manual_1", "manual_2"}
           \/ dec'.external = "manual_3" /\ d.manual3Left # Off
    BY <1>1, UpdatedFields
  <2>2. dec'.external = "manual_3" \/ dec'.manual3Left # Off => dec'.autoLeft = Off
    BY <2>1 DEF Fits
  <2> QED
    BY <2>1, <2>2 DEF Fits
<1> QED
  BY <1>3, <1>4, InvIsFit DEF ModeInv, WindowsFollowCommand, AutoIsImmediate, Fits

\* Whatever is heard under the last command takes a level up only for that command.
Earned ==
    dec'.external \notin {dec.external, "auto"}
        => /\ command.age <= PairWindow
           /\ Distance(FanPair(dec'), command.pair) > 16
           /\ command.pair # NoPair
           /\ dec'.external = "manual_3" => command.kind = "189"
           /\ command.kind # "auto"

LEMMA SameWindowsAreEarned ==
    ASSUME ModeInv, NEW d \in Decoders, UpdateMode(d),
           d.start = dec.start, d.manualLeft = dec.manualLeft,
           d.manual3Left = dec.manual3Left, d.external = dec.external
    PROVE  Earned
<1> SUFFICES ASSUME dec'.external \notin {dec.external, "auto"}
             PROVE  /\ command.age <= PairWindow
                    /\ Distance(FanPair(dec'), command.pair) > 16
                    /\ command.pair # NoPair
                    /\ dec'.external = "manual_3" => command.kind = "189"
                    /\ command.kind # "auto"
  BY DEF Earned
<1>1. dec' = Updated(d) /\ FanPair(dec') = FanPair(d)
  BY UpdatedFields DEF UpdateMode, SameHeard, FanPair, Whole
<1>2. /\ Changed(d)
      /\ \/ dec'.external \in {"manual_1", "manual_2"} /\ d.manualLeft # Off
         \/ dec'.external = "manual_3" /\ d.manual3Left # Off
  BY <1>1, UpdatedFields
<1>3. d.start # NoPair /\ d.start = command.pair /\ Distance(FanPair(d), d.start) > 16
  BY <1>2 DEF Changed, ModeInv, WindowsFollowCommand
<1>4. /\ command.age \in Nat
      /\ d.manualLeft \in TimeLeft(PairWindow) /\ d.manual3Left \in TimeLeft(PairWindow)
  BY DEF ModeInv, TypeOK, Decoders
<1>5. command.age <= PairWindow /\ command.kind \in {"172", "189"}
  BY <1>2, <1>4, ModeAssumption DEF ModeInv, WindowsFollowCommand, TimeLeft, Off
<1>6. dec'.external = "manual_3" => command.kind = "189"
  BY <1>2 DEF ModeInv, WindowsFollowCommand
<1> QED
  BY <1>1, <1>3, <1>5, <1>6

\* The frame of a command takes no level up.
LEMMA CommandsAreEarned ==
    ASSUME NEW d \in Decoders, UpdateMode(d), d.start = FanPair(d), d.external \in {dec.external, "auto"}
    PROVE  Earned
BY UpdatedFields, UnchangedPair DEF UpdateMode, Earned

-----------------------------------------------------------------------------
\* The steps.  Every one but the passing of time ends with _update_mode.
\* A frame that is no command sets no deadline and no level by itself.
SameWindows(d) ==
    /\ d.start = dec.start /\ d.manualLeft = dec.manualLeft
    /\ d.manual3Left = dec.manual3Left
    /\ d.autoLeft = dec.autoLeft /\ d.external = dec.external

NoCommand == \E d \in Decoders : UpdateMode(d) /\ SameWindows(d)

LEMMA FrameInput ==
    ASSUME dec \in Decoders, HearFan \/ HearFlag \/ HearSwitch \/ HearOther
    PROVE  NoCommand
<1>1. dec \in Decoders
  OBVIOUS
<1>2. ASSUME NEW d \in Decoders, UpdateMode(d),
             d.start = dec.start, d.manualLeft = dec.manualLeft, d.manual3Left = dec.manual3Left,
             d.autoLeft = dec.autoLeft, d.external = dec.external
      PROVE  NoCommand
  BY <1>2 DEF NoCommand, SameWindows
<1>3. CASE HearFan
  <2>1. ASSUME NEW register \in {66, 67}, NEW value,
               value \in (IF register = 66 THEN Extracts ELSE Supplies),
               UpdateMode(FanWritten(dec, register, value))
        PROVE  NoCommand
    <3> DEFINE heard == IF dec.nightLeft # Off THEN dec.nightHeard \cup {register} ELSE dec.nightHeard
               extract == IF register = 66 THEN value ELSE dec.extract
               supply == IF register = 67 THEN value ELSE dec.supply
               d == [dec EXCEPT !.extract = extract, !.supply = supply, !.nightHeard = heard]
    <3>1. heard \in Heard
      BY <1>1 DEF Decoders, Heard
    <3>2. extract \in Extracts \cup {Unknown} /\ supply \in Supplies \cup {Unknown}
      BY <1>1, <2>1 DEF Decoders
    <3>3. FanWritten(dec, register, value) = d
      BY <1>1 DEF FanWritten, Decoders
    <3> HIDE DEF heard, extract, supply
    <3>4. d \in Decoders
      BY <1>1, <3>1, <3>2 DEF Decoders
    <3>5. /\ d.start = dec.start /\ d.manualLeft = dec.manualLeft
          /\ d.manual3Left = dec.manual3Left
          /\ d.autoLeft = dec.autoLeft /\ d.external = dec.external
      BY <1>1 DEF Decoders
    <3> QED
      BY <1>2, <2>1, <3>3, <3>4, <3>5
  <2> QED
    BY <1>3, <2>1 DEF HearFan
<1>4. CASE HearFlag
  <2>1. PICK f \in {0, 1} : UpdateMode([dec EXCEPT !.flag = f])
    BY <1>4 DEF HearFlag
  <2> DEFINE d == [dec EXCEPT !.flag = f]
  <2>2. d \in Decoders
    BY <1>1 DEF Decoders
  <2>3. /\ d.start = dec.start /\ d.manualLeft = dec.manualLeft
        /\ d.manual3Left = dec.manual3Left
        /\ d.autoLeft = dec.autoLeft /\ d.external = dec.external
    BY <1>1 DEF Decoders
  <2> QED
    BY <1>2, <2>1, <2>2, <2>3
<1>5. CASE HearSwitch
  <2> DEFINE d == [dec EXCEPT !.explicit = 200, !.explicitAge = 0]
  <2>1. UpdateMode(d)
    BY <1>5 DEF HearSwitch, Explicit
  <2>2. d \in Decoders
    <3>1. 0 \in Ages /\ Off \in TimeLeft(NightWindow) /\ 200 \in {0, 189, 200}
      BY ModeAssumption DEF Ages, Long, TimeLeft, Off
    <3> DEFINE e == [dec EXCEPT !.explicit = 200]
    <3>2. dec \in Decoders /\ Off \in TimeLeft(PairWindow)
      BY <1>1, NoPairType
    <3>3. e \in Decoders
      BY <3>2 DEF Decoders
    <3> HIDE DEF e
    <3>4. [e EXCEPT !.explicitAge = 0] \in Decoders
      BY <3>1, <3>3 DEF Decoders
    <3> QED
      BY <3>4 DEF e
  <2>3. /\ d.start = dec.start /\ d.manualLeft = dec.manualLeft
        /\ d.manual3Left = dec.manual3Left
        /\ d.autoLeft = dec.autoLeft /\ d.external = dec.external
    BY <1>1 DEF Decoders
  <2> QED
    BY <1>2, <2>1, <2>2, <2>3
<1>6. CASE HearOther
  BY <1>1, <1>2, <1>6 DEF HearOther
<1> QED
  BY <1>3, <1>4, <1>5, <1>6

LEMMA FrameStep ==
    ASSUME ModeInv, HearFan \/ HearFlag \/ HearSwitch \/ HearOther
    PROVE  ModeInv' /\ Earned
<1>1. /\ dec \in Decoders /\ command \in Commands /\ Fits(dec, command)
      /\ command' = command
  BY InvIsFit DEF ModeInv, TypeOK, Commands, HearFan, HearFlag, HearSwitch, HearOther
<1>2. PICK d \in Decoders : UpdateMode(d) /\ SameWindows(d)
  BY <1>1, FrameInput DEF NoCommand
<1>3. Fits(d, command')
  BY <1>1, <1>2 DEF Fits, SameWindows
<1> QED
  BY <1>1, <1>2, <1>3, UpdateKeepsInv, SameWindowsAreEarned DEF ModeInv, SameWindows

\* 189 sets a deadline for level 3 and the pair to compare with.
LEMMA Level3Input ==
    ASSUME dec \in Decoders
    PROVE  /\ Level3(dec) \in Decoders
           /\ Level3(dec).start = FanPair(dec) /\ Level3(dec).manual3Left = PairWindow
           /\ Level3(dec).autoLeft = Off
           /\ Level3(dec).manualLeft = dec.manualLeft /\ Level3(dec).external = dec.external
           /\ Level3(dec).extract = dec.extract /\ Level3(dec).supply = dec.supply
<1>1. FanPair(dec) \in Pairs
  BY FanPairType
<1>2. PairWindow \in TimeLeft(PairWindow) /\ Off \in TimeLeft(PairWindow) /\ 0 \in Ages /\ 0 \in Nat
  BY ModeAssumption DEF TimeLeft, Off, Ages, Long
<1>3. Level3(dec) \in Decoders
  <2> HIDE DEF Ages
  <2> QED
    BY <1>1, <1>2 DEF Level3, Explicit, Decoders
<1> QED
  BY <1>3 DEF Level3, Explicit, Decoders

LEMMA Level3Step == ASSUME ModeInv, HearLevel3 PROVE ModeInv' /\ Earned
<1> DEFINE d == Level3(dec)
           c == [kind |-> "189", pair |-> FanPair(dec), age |-> 0, alone |-> dec.manualLeft = Off]
<1>1. dec \in Decoders /\ command \in Commands /\ Fits(dec, command)
  BY InvIsFit DEF ModeInv, TypeOK, Commands
<1>2. UpdateMode(d) /\ command' = c
  BY DEF HearLevel3
<1>3. FanPair(dec) \in Pairs
  BY <1>1, FanPairType
<1>4. PairWindow \in TimeLeft(PairWindow) /\ Off \in TimeLeft(PairWindow) /\ 0 \in Ages /\ 0 \in Nat
  BY ModeAssumption DEF TimeLeft, Off, Ages, Long
<1>5. d \in Decoders
  BY <1>1, Level3Input
<1>6. /\ d.start = FanPair(dec) /\ d.manual3Left = PairWindow /\ d.autoLeft = Off
      /\ d.manualLeft = dec.manualLeft /\ d.external = dec.external
      /\ d.extract = dec.extract /\ d.supply = dec.supply
  BY <1>1, Level3Input
<1>7. FanPair(d) = FanPair(dec)
  BY <1>6 DEF FanPair, Whole
<1> HIDE DEF d
<1>8. c \in Commands
  <2>1. (dec.manualLeft = Off) \in BOOLEAN
    BY Zenon
  <2> QED
    BY <1>3, <1>4, <2>1 DEF Commands
<1>9. dec.manualLeft # Off => dec.manualLeft <= PairWindow
  BY <1>1, ModeAssumption DEF Decoders, TimeLeft, Off
<1>10. Fits(d, c)
  <2>1. 0 + d.manual3Left <= PairWindow
    BY <1>6, ModeAssumption
  <2>2. d.manualLeft # Off => 0 + d.manualLeft <= PairWindow
    <3>1. dec.manualLeft \in Int
      BY <1>1 DEF Decoders, TimeLeft, Off
    <3> QED
      BY <1>6, <1>9, <3>1
  <2> QED
    BY <1>6, <2>1, <2>2 DEF Fits
<1> QED
  BY <1>2, <1>5, <1>6, <1>7, <1>8, <1>10, UpdateKeepsInv, CommandsAreEarned DEF ModeInv

\* 172 sets a deadline for levels 1 and 2 or for automatic, and the pair.
LEMMA ConfirmInput ==
    ASSUME dec \in Decoders
    PROVE  /\ Confirmed(dec) \in Decoders
           /\ Confirmed(dec).start = FanPair(dec) /\ Confirmed(dec).manual3Left = Off
           /\ Confirmed(dec).autoLeft = IF IsAuto(dec) THEN PairWindow ELSE Off
           /\ Confirmed(dec).manualLeft = IF IsAuto(dec) THEN Off ELSE PairWindow
           /\ Confirmed(dec).external = IF IsAuto(dec) THEN "auto" ELSE dec.external
           /\ Confirmed(dec).extract = dec.extract /\ Confirmed(dec).supply = dec.supply
<1> DEFINE n == NightOpened(dec)
           auto == IF IsAuto(dec) THEN PairWindow ELSE Off
           manual == IF IsAuto(dec) THEN Off ELSE PairWindow
           external == IF IsAuto(dec) THEN "auto" ELSE dec.external
           d == [n EXCEPT !.autoLeft = auto, !.manualLeft = manual, !.manual3Left = Off,
                          !.start = FanPair(dec), !.external = external]
<1>1. FanPair(dec) \in Pairs /\ external \in Modes
  BY FanPairType DEF Decoders, Modes
<1>2. /\ auto \in TimeLeft(PairWindow) /\ manual \in TimeLeft(PairWindow)
      /\ Off \in TimeLeft(PairWindow)
  BY ModeAssumption DEF TimeLeft, Off
<1>3. n \in Decoders /\ n.extract = dec.extract /\ n.supply = dec.supply
  <2> DEFINE e == [dec EXCEPT !.nightLeft = NightWindow, !.nightHeard = {}]
  <2>1. n \in {dec, e}
    BY DEF NightOpened
  <2>2. NightWindow \in TimeLeft(NightWindow) /\ {} \in Heard
    BY ModeAssumption DEF TimeLeft, Off, Heard
  <2>3. e \in Decoders /\ e.extract = dec.extract /\ e.supply = dec.supply
    BY <2>2 DEF Decoders
  <2> HIDE DEF n, e
  <2> QED
    BY <2>1, <2>3
<1>4. Confirmed(dec) = d
  BY DEF Confirmed
<1> HIDE DEF n, auto, manual, external
<1>5. d \in Decoders
  BY <1>1, <1>2, <1>3 DEF Decoders
<1>6. /\ d.start = FanPair(dec) /\ d.manual3Left = Off /\ d.autoLeft = auto
      /\ d.manualLeft = manual /\ d.external = external
      /\ d.extract = dec.extract /\ d.supply = dec.supply
  BY <1>3 DEF Decoders
<1> HIDE DEF d
<1> QED
  BY <1>4, <1>5, <1>6 DEF auto, manual, external

LEMMA ConfirmStep == ASSUME ModeInv, HearConfirm PROVE ModeInv' /\ Earned
<1> DEFINE d == Confirmed(dec)
           kind == IF IsAuto(dec) THEN "auto" ELSE "172"
           c == [kind |-> kind, pair |-> FanPair(dec), age |-> 0, alone |-> TRUE]
<1>1. dec \in Decoders /\ command \in Commands /\ Fits(dec, command)
  BY InvIsFit DEF ModeInv, TypeOK, Commands
<1>2. UpdateMode(d) /\ command' = c
  BY DEF HearConfirm
<1>3. d \in Decoders
  BY <1>1, ConfirmInput
<1>4. /\ d.start = FanPair(dec) /\ d.manual3Left = Off
      /\ d.extract = dec.extract /\ d.supply = dec.supply
      /\ d.external \in {dec.external, "auto"}
      /\ d.autoLeft # Off => d.external = "auto"
      /\ d.manualLeft \in {Off, PairWindow}
      /\ kind \in {"172", "auto"}
      /\ kind = "auto" => d.manualLeft = Off /\ d.external = "auto"
  BY <1>1, ConfirmInput
<1>5. 0 + PairWindow <= PairWindow /\ FanPair(dec) \in Pairs
  BY <1>1, FanPairType, ModeAssumption
<1> HIDE DEF d, kind
<1>6. FanPair(d) = FanPair(dec)
  BY <1>4 DEF FanPair, Whole
<1>7. c \in Commands
  BY <1>4, <1>5 DEF Commands
<1>8. Fits(d, c)
  BY <1>4, <1>5 DEF Fits
<1> QED
  BY <1>2, <1>3, <1>4, <1>6, <1>7, <1>8, UpdateKeepsInv, CommandsAreEarned DEF ModeInv

\* Time passes for a deadline and for the age of the command alike.
LEMMA TickStep == ASSUME ModeInv, Tick PROVE ModeInv' /\ Earned
<1>1. dec \in Decoders /\ command \in Commands /\ Fits(dec, command)
  BY InvIsFit DEF ModeInv, TypeOK, Commands
<1>2. ASSUME NEW window \in Nat, NEW left \in TimeLeft(window)
      PROVE  /\ Less(left) \in TimeLeft(window)
             /\ left = Off => Less(left) = Off
             /\ left # Off => Less(left) = left - 1
  BY <1>2 DEF Less, TimeLeft, Off
<1>3. Older(dec.explicitAge) \in Ages
  BY <1>1, ModeAssumption DEF Decoders, Older, Ages, Long
<1>4. /\ dec.nightLeft \in TimeLeft(NightWindow) /\ dec.manualLeft \in TimeLeft(PairWindow)
      /\ dec.manual3Left \in TimeLeft(PairWindow) /\ dec.autoLeft \in TimeLeft(PairWindow)
  BY <1>1 DEF Decoders
<1>5. /\ Less(dec.nightLeft) \in TimeLeft(NightWindow)
      /\ Less(dec.manualLeft) \in TimeLeft(PairWindow)
      /\ Less(dec.manual3Left) \in TimeLeft(PairWindow)
      /\ Less(dec.autoLeft) \in TimeLeft(PairWindow)
  BY <1>2, <1>4, ModeAssumption
<1>6. dec' \in Decoders
  <2> DEFINE a == [dec EXCEPT !.nightLeft = Less(dec.nightLeft)]
             b == [a EXCEPT !.manualLeft = Less(dec.manualLeft)]
             c == [b EXCEPT !.manual3Left = Less(dec.manual3Left)]
             d == [c EXCEPT !.autoLeft = Less(dec.autoLeft)]
             e == [d EXCEPT !.explicitAge = Older(dec.explicitAge)]
  <2>1. dec' = e
    BY DEF Tick
  <2>2. 0 \in {0, 189, 200}
    OBVIOUS
  <2>3. a \in Decoders
    BY <1>1, <1>3, <1>5, <2>2, OneAttributeSet
  <2> HIDE DEF a
  <2>4. b \in Decoders
    BY <1>3, <1>5, <2>2, <2>3, OneAttributeSet
  <2> HIDE DEF b
  <2>5. c \in Decoders
    BY <1>3, <1>5, <2>2, <2>4, OneAttributeSet
  <2> HIDE DEF c
  <2>6. d \in Decoders
    BY <1>3, <1>5, <2>2, <2>5, OneAttributeSet
  <2> HIDE DEF d
  <2>7. e \in Decoders
    BY <1>3, <1>5, <2>2, <2>6, OneAttributeSet
  <2> QED
    BY <2>1, <2>7
<1>7. /\ dec'.start = dec.start /\ dec'.external = dec.external
      /\ dec'.manualLeft = Less(dec.manualLeft)
      /\ dec'.manual3Left = Less(dec.manual3Left)
      /\ dec'.autoLeft = Less(dec.autoLeft)
  BY <1>1 DEF Tick, Decoders
<1>8. /\ command' \in Commands /\ command'.kind = command.kind /\ command'.pair = command.pair
      /\ command'.age = IF command.age <= PairWindow THEN command.age + 1 ELSE command.age
  BY <1>1, ModeAssumption DEF Tick, Commands
<1>9. TypeOK'
  BY <1>6, <1>8 DEF Tick, ModeInv, TypeOK, Commands
<1>10. ASSUME NEW left \in TimeLeft(PairWindow), left # Off => command.age + left <= PairWindow
       PROVE  Less(left) # Off => left # Off /\ command'.age + Less(left) <= PairWindow
  <2>1. command.age \in Nat
    BY <1>1 DEF Commands
  <2> QED
    BY <1>2, <1>8, <1>10, <2>1, ModeAssumption DEF TimeLeft, Off
<1>11. /\ Less(dec.manual3Left) # Off =>
             dec.manual3Left # Off /\ command'.age + Less(dec.manual3Left) <= PairWindow
       /\ Less(dec.manualLeft) # Off =>
             dec.manualLeft # Off /\ command'.age + Less(dec.manualLeft) <= PairWindow
       /\ dec.autoLeft = Off => Less(dec.autoLeft) = Off
  BY <1>1, <1>2, <1>4, <1>10, ModeAssumption DEF Fits
<1>12. Fits(dec', command')
  BY <1>1, <1>7, <1>8, <1>11 DEF Fits
<1> QED
  BY <1>7, <1>9, <1>12 DEF ModeInv, WindowsFollowCommand, AutoIsImmediate, Fits, Earned

-----------------------------------------------------------------------------
\* Every step keeps ModeInv and is Earned.
LEMMA ModeInvStep == ModeInv /\ [Next]_vars => ModeInv' /\ [Earned]_vars
<1> SUFFICES ASSUME ModeInv, [Next]_vars PROVE ModeInv' /\ [Earned]_vars
  OBVIOUS
<1>1. CASE HearFan \/ HearFlag \/ HearSwitch \/ HearOther
  BY <1>1, FrameStep
<1>2. CASE HearLevel3
  BY <1>2, Level3Step
<1>3. CASE HearConfirm
  BY <1>3, ConfirmStep
<1>4. CASE Tick
  BY <1>4, TickStep
<1>5. CASE UNCHANGED vars
  BY <1>5 DEF vars, ModeInv, TypeOK, WindowsFollowCommand, AutoIsImmediate
<1> QED
  BY <1>1, <1>2, <1>3, <1>4, <1>5 DEF Next

\* ModeInv holds in every reachable state, and every step is Earned.
THEOREM ModeInvariant == Spec => []ModeInv /\ [][Earned]_vars
<1>1. Init => ModeInv
  <2> SUFFICES ASSUME Init PROVE ModeInv
    OBVIOUS
  <2>1. /\ Off \in TimeLeft(NightWindow) /\ {} \in Heard /\ Long \in Ages /\ Long \in Nat
    BY ModeAssumption DEF TimeLeft, Off, Heard, Ages, Long
  <2>2. dec \in Decoders
    BY <2>1, NoPairType DEF Init, Fresh, Decoders, Modes
  <2>3. TypeOK
    BY <2>1, <2>2, NoPairType DEF Init, TypeOK, Labels
  <2>4. Fits(dec, command)
    BY DEF Init, Fresh, Fits
  <2> QED
    BY <2>3, <2>4, InvIsFit
<1> QED
  BY <1>1, ModeInvStep, PTL DEF Spec

\* Every attribute keeps its type: no deadline lies further ahead than its window.
THEOREM TypeCorrect == Spec => []TypeOK
<1>1. ModeInv => TypeOK
  BY DEF ModeInv
<1> QED
  BY <1>1, ModeInvariant, PTL

\* A level is taken up only in the window of its command and with another pair.
THEOREM LevelsAreEarned == Spec => LevelIsEarned
BY ModeInvariant, PTL DEF LevelIsEarned, Earned

\* No switch to automatic is pending while level 3 is in force or awaited.
THEOREM NoSwitchIsPending == Spec => []AutoIsImmediate
<1>1. ModeInv => AutoIsImmediate
  BY DEF ModeInv
<1> QED
  BY <1>1, ModeInvariant, PTL

-----------------------------------------------------------------------------
\* A command of level 3, with nothing else running and a pair to compare with.
Asked(c) == c.kind = "189" /\ c.alone /\ c.age <= PairWindow /\ c.pair # NoPair

\* Level 3 is in force or still awaited, and nothing is pending that could take
\* its place.
Awaited(d, c) ==
    Asked(c) => /\ d.manualLeft = Off /\ d.autoLeft = Off
                /\ \/ d.external = "manual_3"
                   \/ d.manual3Left = PairWindow - c.age /\ d.start = c.pair

Seen(d, c) ==
    Asked(c) /\ NearLevel3(d) /\ Distance(FanPair(d), c.pair) > 16 => d.external = "manual_3"

\* Level3IsSeen as far as the attributes are concerned.
Level3IsTaken == Seen(dec, command)

\* What was not heard whole is no pair of level 3.
LEMMA NoPairIsFar == ASSUME NEW d, ~Whole(d) PROVE ~NearLevel3(d)
BY DEF NearLevel3, FanPair, NoPair, Unknown, Distance

\* While level 3 is awaited, _update_mode takes it up or leaves things alone.
LEMMA UpdateSees ==
    ASSUME NEW d \in Decoders, NEW c \in Commands, Awaited(d, c)
    PROVE  Awaited(Updated(d), c) /\ Seen(Updated(d), c)
<1> SUFFICES ASSUME Asked(c) PROVE Awaited(Updated(d), c) /\ Seen(Updated(d), c)
  BY DEF Awaited, Seen
<1>1. /\ d.manualLeft = Off /\ d.autoLeft = Off
      /\ \/ d.external = "manual_3"
         \/ d.manual3Left = PairWindow - c.age /\ d.start = c.pair
      /\ c.pair # NoPair /\ c.age \in Nat /\ c.age <= PairWindow
  BY DEF Awaited, Asked, Commands
<1>2. CASE ~Whole(d)
  BY <1>2, NoPairIsFar DEF Updated, Seen
<1>3. CASE Whole(d)
  <2> DEFINE n == NightJudged(d)
             h == Manual3Taken(n, Changed(d))
  <2>1. /\ n \in Decoders /\ SameHeard(n, d) /\ n.external = d.external
        /\ n.manualLeft = d.manualLeft /\ n.manual3Left = d.manual3Left
        /\ n.autoLeft = d.autoLeft /\ n.start = d.start
    BY NightFields
  <2>2. ManualTaken(n) = n
    BY <1>1, <2>1 DEF ManualTaken
  <2>3. Changed(d) \in BOOLEAN
    BY DEF Changed
  <2>4. /\ h \in Decoders /\ SameHeard(h, n) /\ h.manualLeft = n.manualLeft
        /\ h.autoLeft \in {n.autoLeft, Off}
        /\ h.external = n.external \/ h.external = "manual_3"
    BY <2>1, <2>3, Manual3Fields
  <2>5. Updated(d) = h
    <3>1. h.autoLeft = Off
      BY <1>1, <2>1, <2>4
    <3> QED
      BY <1>3, <2>2, <3>1 DEF Updated, AutoAgain
  <2>6. FanPair(h) = FanPair(d) /\ FanPair(n) = FanPair(d)
    BY <2>1, <2>4 DEF SameHeard, FanPair, Whole
  <2>7. CASE d.external = "manual_3"
    <3>1. h.external = "manual_3" /\ h.manualLeft = Off /\ h.autoLeft = Off
      BY <1>1, <2>1, <2>4, <2>7
    <3> QED
      BY <2>5, <3>1 DEF Awaited, Seen
  <2>8. CASE d.manual3Left = PairWindow - c.age /\ d.start = c.pair
    <3>1. n.manual3Left # Off
      BY <1>1, <2>1, <2>8, ModeAssumption DEF Off
    <3>2. CASE Changed(d) /\ NearLevel3(n)
      <4>1. h = [n EXCEPT !.external = "manual_3", !.manual3Left = Off, !.start = NoPair]
        BY <3>1, <3>2 DEF Manual3Taken
      <4>2. h.external = "manual_3" /\ h.manualLeft = Off /\ h.autoLeft = Off
        BY <1>1, <2>1, <4>1 DEF Decoders
      <4> QED
        BY <2>5, <4>2 DEF Awaited, Seen
    <3>3. CASE ~(Changed(d) /\ NearLevel3(n))
      <4>1. h = n
        BY <3>3 DEF Manual3Taken
      <4>2. Awaited(h, c)
        BY <1>1, <2>1, <2>8, <4>1 DEF Awaited
      <4>3. ~(NearLevel3(h) /\ Distance(FanPair(h), c.pair) > 16)
        BY <1>1, <2>6, <2>8, <3>3, <4>1 DEF Changed, NearLevel3
      <4> QED
        BY <2>5, <4>2, <4>3 DEF Seen
    <3> QED
      BY <3>2, <3>3
  <2> QED
    BY <1>1, <2>7, <2>8
<1> QED
  BY <1>2, <1>3

LEMMA StepSees ==
    ModeInv /\ Awaited(dec, command) /\ Level3IsTaken /\ [Next]_vars
        => Awaited(dec, command)' /\ Level3IsTaken'
<1> SUFFICES ASSUME ModeInv, Awaited(dec, command), Level3IsTaken, [Next]_vars
             PROVE  Awaited(dec, command)' /\ Level3IsTaken'
  OBVIOUS
<1>1. dec \in Decoders /\ command \in Commands
  BY DEF ModeInv, TypeOK, Commands
<1>2. command' \in Commands
  BY ModeInvStep DEF ModeInv, TypeOK, Commands
<1>3. ASSUME NEW d \in Decoders, UpdateMode(d), Awaited(d, command')
      PROVE  Awaited(dec, command)' /\ Level3IsTaken'
  <2>1. Awaited(dec', command') /\ Seen(dec', command')
    BY <1>2, <1>3, UpdateSees DEF UpdateMode
  <2> QED
    BY <2>1 DEF Level3IsTaken, Seen, Asked
<1>4. CASE HearFan \/ HearFlag \/ HearSwitch \/ HearOther
  <2>1. PICK d \in Decoders : UpdateMode(d) /\ SameWindows(d)
    BY <1>1, <1>4, FrameInput DEF NoCommand
  <2>2. command' = command
    BY <1>4 DEF HearFan, HearFlag, HearSwitch, HearOther
  <2> QED
    BY <1>3, <2>1, <2>2 DEF Awaited, SameWindows
<1>5. CASE HearLevel3
  <2>1. /\ command'.age = 0 /\ command'.pair = FanPair(dec)
        /\ command'.alone = (dec.manualLeft = Off) /\ UpdateMode(Level3(dec))
    BY <1>5 DEF HearLevel3
  <2>2. Awaited(Level3(dec), command')
    <3>1. PairWindow - 0 = PairWindow
      BY ModeAssumption
    <3> QED
      BY <1>1, <2>1, <3>1, Level3Input, Zenon DEF Awaited, Asked
  <2> QED
    BY <1>1, <1>3, <2>1, <2>2, Level3Input
<1>6. CASE HearConfirm
  <2>1. command'.kind # "189"
    BY <1>6 DEF HearConfirm
  <2> QED
    BY <2>1 DEF Awaited, Level3IsTaken, Seen, Asked
<1>7. CASE Tick
  <2>1. /\ dec'.start = dec.start /\ dec'.external = dec.external
        /\ dec'.extract = dec.extract /\ dec'.supply = dec.supply
        /\ dec'.manualLeft = Less(dec.manualLeft)
        /\ dec'.manual3Left = Less(dec.manual3Left)
        /\ dec'.autoLeft = Less(dec.autoLeft)
    BY <1>1, <1>7 DEF Tick, Decoders
  <2>2. /\ command'.kind = command.kind /\ command'.pair = command.pair
        /\ command'.alone = command.alone /\ command.age \in Nat
        /\ command'.age = IF command.age <= PairWindow THEN command.age + 1 ELSE command.age
    BY <1>1, <1>7, ModeAssumption DEF Tick, Commands
  <2>3. Asked(command') => Asked(command) /\ command'.age = command.age + 1
    BY <2>2, ModeAssumption DEF Asked
  <2>4. Awaited(dec', command')
    <3> SUFFICES ASSUME Asked(command')
                 PROVE  /\ dec'.manualLeft = Off /\ dec'.autoLeft = Off
                        /\ \/ dec'.external = "manual_3"
                           \/ /\ dec'.manual3Left = PairWindow - command'.age
                              /\ dec'.start = command'.pair
      BY DEF Awaited
    <3>1. /\ dec.manualLeft = Off /\ dec.autoLeft = Off
          /\ \/ dec.external = "manual_3"
             \/ dec.manual3Left = PairWindow - command.age /\ dec.start = command.pair
      BY <2>3 DEF Awaited
    <3>2. command.age + 1 <= PairWindow /\ command'.age = command.age + 1
      BY <2>3 DEF Asked
    <3>3. ASSUME dec.manual3Left = PairWindow - command.age
          PROVE  dec'.manual3Left = PairWindow - command'.age
      BY <2>1, <2>2, <3>2, <3>3, ModeAssumption DEF Less, Off
    <3> QED
      BY <2>1, <2>2, <3>1, <3>3 DEF Less
  <2>5. FanPair(dec') = FanPair(dec)
    BY <2>1 DEF FanPair, Whole
  <2>6. Seen(dec', command')
    BY <2>1, <2>2, <2>3, <2>5 DEF Level3IsTaken, Seen, NearLevel3
  <2> QED
    BY <2>4, <2>6 DEF Level3IsTaken, Seen, Asked
<1>8. CASE UNCHANGED vars
  BY <1>8 DEF vars, Awaited, Level3IsTaken
<1> QED
  BY <1>4, <1>5, <1>6, <1>7, <1>8 DEF Next

-----------------------------------------------------------------------------
\* With a whole pair the label on show is that of the decoder's attributes.
ShownFits == Whole(dec) => shown = Label(dec)

LEMMA UpdateShows ==
    ASSUME NEW d \in Decoders, UpdateMode(d)
    PROVE  ShownFits'
<1>1. dec' = Updated(d) /\ SameHeard(dec', d)
  BY UpdatedFields DEF UpdateMode
<1>2. Whole(dec') => Whole(d)
  BY <1>1 DEF SameHeard, Whole
<1> QED
  BY <1>1, <1>2 DEF UpdateMode, ShownFits

LEMMA StepShows == ModeInv /\ ShownFits /\ [Next]_vars => ShownFits'
<1> SUFFICES ASSUME ModeInv, ShownFits, [Next]_vars PROVE ShownFits'
  OBVIOUS
<1>1. dec \in Decoders
  BY DEF ModeInv, TypeOK
<1>2. CASE HearFan \/ HearFlag \/ HearSwitch \/ HearOther
  <2>1. PICK d \in Decoders : UpdateMode(d)
    BY <1>1, <1>2, FrameInput DEF NoCommand
  <2> QED
    BY <2>1, UpdateShows
<1>3. CASE HearLevel3
  BY <1>1, <1>3, Level3Input, UpdateShows DEF HearLevel3
<1>4. CASE HearConfirm
  BY <1>1, <1>4, ConfirmInput, UpdateShows DEF HearConfirm
<1>5. CASE Tick
  <2>1. /\ dec'.extract = dec.extract /\ dec'.supply = dec.supply
        /\ dec'.flag = dec.flag /\ dec'.external = dec.external
    BY <1>1, <1>5 DEF Tick, Decoders
  <2>2. FanPair(dec') = FanPair(dec) /\ (Whole(dec') <=> Whole(dec))
    BY <2>1 DEF FanPair, Whole
  <2>3. Label(dec') = Label(dec)
    BY <2>1, <2>2 DEF Label
  <2> QED
    BY <1>5, <2>2, <2>3 DEF Tick, ShownFits
<1>6. CASE UNCHANGED vars
  BY <1>6 DEF vars, ShownFits
<1> QED
  BY <1>2, <1>3, <1>4, <1>5, <1>6 DEF Next

\* A pair near that of level 3 has no label of its own.
LEMMA Level3Label ==
    ASSUME NEW d \in Decoders, NearLevel3(d), d.external = "manual_3"
    PROVE  Whole(d) /\ Label(d) = "manual_3"
<1>1. Whole(d)
  BY NoPairIsFar
<1>2. d.extract \in Int /\ d.supply \in Int /\ FanPair(d) = <<d.extract, d.supply>>
  <2>1. d.extract \in Extracts \cup {Unknown} /\ d.supply \in Supplies \cup {Unknown}
    BY DEF Decoders
  <2>2. \A x \in Extracts \cup {Unknown}, y \in Supplies \cup {Unknown} : x \in Int /\ y \in Int
    BY ModeAssumption DEF Unknown
  <2>3. d.extract \in Int /\ d.supply \in Int
    BY <2>1, <2>2, Zenon
  <2>4. FanPair(d) = <<d.extract, d.supply>>
    BY <1>1 DEF FanPair
  <2> QED
    BY <2>3, <2>4
<1>3. /\ FanPair(d)[1] # 0
      /\ FanPair(d) # <<0, 0>> /\ FanPair(d) # <<100, 88>>
  <2>1. (0 - 85) * (0 - 85) = 7225 /\ (100 - 85) * (100 - 85) = 225 /\ (88 - 73) * (88 - 73) = 225
    OBVIOUS
  <2>2. \A n \in Int : n * n >= 0
    OBVIOUS
  <2>3. (d.supply - 73) * (d.supply - 73) >= 0
    BY <1>2, <2>2
  <2>4. (d.extract - 85) * (d.extract - 85) + (d.supply - 73) * (d.supply - 73) <= 100
    BY <1>2 DEF NearLevel3, Distance
  <2>5. d.extract # 0
    BY <1>2, <2>1, <2>3, <2>4
  <2>6. ~(d.extract = 100 /\ d.supply = 88)
    BY <2>1, <2>4
  <2> QED
    BY <1>2, <2>5, <2>6
<1> QED
  BY <1>1, <1>3 DEF Label

\* A command of level 3 is not missed: Level3IsSeen of ModeDecoder.tla.
THEOREM SeesLevel3 == Spec => []Level3IsSeen
<1>1. Init => Awaited(dec, command) /\ Level3IsTaken /\ ShownFits
  BY DEF Init, Awaited, Level3IsTaken, Seen, Asked, ShownFits, Fresh, Whole
<1>2. ModeInv /\ Level3IsTaken /\ ShownFits => Level3IsSeen
  BY Level3Label DEF ModeInv, TypeOK, Level3IsTaken, Seen, Asked, ShownFits, Level3IsSeen
<1> QED
  BY <1>1, <1>2, StepSees, StepShows, ModeInvariant, PTL DEF Spec
=============================================================================
