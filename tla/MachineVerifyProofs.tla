------------------------ MODULE MachineVerifyProofs -------------------------
(***************************************************************************)
(* The awk program prints every card of every machine; from that, the      *)
(* verdicts and the listed cards are true and a verify repairs its file,   *)
(* for any set of machines, entries and processes.                         *)
(***************************************************************************)
EXTENDS MachineVerify, WellFoundedInduction, TLAPS

-----------------------------------------------------------------------------
(* Induction.                                                              *)

(* Induction over numbers, for sets in place of predicates: from the       *)
(* library's theorem that < on the naturals is well-founded.               *)
LEMMA LeastNatural ==
  ASSUME NEW S \in SUBSET Nat, S # {}
  PROVE  \E m \in S : \A k \in S : ~(k < m)
<1> DEFINE R == OpToRel(<, Nat)
<1>1. IsWellFoundedOn(R, Nat)
  BY NatLessThanWellFounded
<1>2. \A x, y \in Nat : <<x, y>> \in R <=> x < y
  BY DEF OpToRel
<1> HIDE DEF R
<1>3. PICK m \in S : \A y \in S : ~(<<y, m>> \in R)
  BY <1>1, WFMin
<1>4. \A k \in S : ~(k < m)
  BY <1>2, <1>3
<1> QED
  BY <1>4

LEMMA Induction ==
  ASSUME NEW N \in Nat, NEW S, 0 \in S,
         \A n \in 0 .. N : n \in S /\ n < N => n + 1 \in S
  PROVE  0 .. N \subseteq S
<1> SUFFICES ASSUME (0 .. N) \ S # {} PROVE FALSE
  OBVIOUS
<1> DEFINE T == (0 .. N) \ S
<1>0. T \in SUBSET Nat /\ T # {}
  OBVIOUS
<1>1. PICK m \in T : \A k \in T : ~(k < m)
  <2> HIDE DEF T
  <2> QED
    BY <1>0, LeastNatural
<1>2. m # 0 /\ m - 1 \in 0 .. N /\ m - 1 \in S /\ m - 1 < N
  BY <1>1
<1>3. (m - 1) + 1 \in S
  BY <1>2
<1> QED
  BY <1>1, <1>2, <1>3

-----------------------------------------------------------------------------
(* The awk program.                                                        *)

(* The number of a card, and those of the first n cards.                   *)
Number(npu) == IF npu.bus /\ npu.phy # None THEN npu.phy ELSE npu.index

Numbers(npus, n) == [i \in 1 .. n |-> Number(npus[i])]

(* The recursion of CardLines, up to row group m, and what would be        *)
(* printed if the program ended there.                                     *)
Start == [named |-> FALSE, index |-> 0, lines |-> <<>>]

ReadsTo(npus, m, f) ==
    f = [n \in 0 .. m |-> IF n = 0 THEN Start
                          ELSE CardRows(f[n - 1], npus[n])]

Printed(s) == IF s.named THEN Append(s.lines, s.index) ELSE s.lines

(* There is such a function.                                               *)
LEMMA ReadExists ==
  ASSUME NEW npus \in Seq(Npu)
  PROVE  \E f : ReadsTo(npus, Len(npus), f)
<1> DEFINE S == {m \in 0 .. Len(npus) : \E f : ReadsTo(npus, m, f)}
<1>1. Len(npus) \in Nat
  OBVIOUS
<1>2. 0 \in S
  <2>1. ReadsTo(npus, 0, [n \in 0 .. 0 |-> Start])
    BY DEF ReadsTo
  <2> QED
    BY <1>1, <2>1
<1>3. ASSUME NEW m \in 0 .. Len(npus), m \in S, m < Len(npus)
      PROVE  m + 1 \in S
  <2>1. PICK f : ReadsTo(npus, m, f)
    BY <1>3
  <2> DEFINE g == [n \in 0 .. m + 1 |->
                      IF n = m + 1 THEN CardRows(f[m], npus[m + 1]) ELSE f[n]]
  <2>2. \A n \in 0 .. m : g[n] = f[n]
    BY <1>1
  <2>3. g[0] = Start
    BY <1>1, <2>1, <2>2 DEF ReadsTo
  <2>4. ASSUME NEW n \in 0 .. m + 1, n # 0
        PROVE  g[n] = CardRows(g[n - 1], npus[n])
    <3>1. n - 1 \in 0 .. m
      BY <1>1, <2>4
    <3>2. g[n - 1] = f[n - 1]
      BY <2>2, <3>1
    <3>3. CASE n = m + 1
      BY <3>1, <3>2, <3>3
    <3>4. CASE n # m + 1
      <4>1. n \in 0 .. m
        BY <1>1, <3>4
      <4>2. f[n] = CardRows(f[n - 1], npus[n])
        BY <2>1, <2>4, <4>1 DEF ReadsTo
      <4> QED
        BY <2>2, <3>2, <4>1, <4>2
    <3> QED
      BY <3>3, <3>4
  <2> DEFINE r == [n \in 0 .. m + 1 |-> IF n = 0 THEN Start
                                     ELSE CardRows(g[n - 1], npus[n])]
  <2>5. DOMAIN g = 0 .. m + 1
    OBVIOUS
  <2>6. g = [n \in 0 .. m + 1 |-> g[n]]
    OBVIOUS
  <2> HIDE DEF g
  <2>7. g = r
    BY <2>3, <2>4, <2>5, <2>6
  <2>8. ReadsTo(npus, m + 1, g)
    BY <2>7 DEF ReadsTo
  <2>9. m + 1 \in 0 .. Len(npus)
    BY <1>1, <1>3
  <2> QED
    BY <2>8, <2>9
<1> HIDE DEF S
<1>4. 0 .. Len(npus) \subseteq S
  BY <1>1, <1>2, <1>3, Induction
<1>5. Len(npus) \in S
  BY <1>1, <1>4
<1> QED
  BY <1>5 DEF S

(* One more card, one more number.                                         *)
LEMMA AppendNumber ==
  ASSUME NEW npus \in Seq(Npu), NEW n \in 1 .. Len(npus)
  PROVE  Append(Numbers(npus, n - 1), Number(npus[n])) = Numbers(npus, n)
BY DEF Numbers

(* However many cards are read, their numbers are printed, in order, the   *)
(* last one's perhaps at the end.                                          *)
LEMMA ReadPrints ==
  ASSUME NEW npus \in Seq(Npu), NEW f, ReadsTo(npus, Len(npus), f)
  PROVE  Printed(f[Len(npus)]) = Numbers(npus, Len(npus))
<1> DEFINE S == {m \in 0 .. Len(npus) : Printed(f[m]) = Numbers(npus, m)}
<1>1. Len(npus) \in Nat
  OBVIOUS
<1>2. f[0] = Start
  BY <1>1 DEF ReadsTo
<1>3. 0 \in S
  BY <1>1, <1>2 DEF Printed, Start, Numbers
<1>4. ASSUME NEW m \in 0 .. Len(npus), m \in S, m < Len(npus)
      PROVE  m + 1 \in S
  <2>1. m + 1 \in 1 .. Len(npus)
    BY <1>1, <1>4
  <2>2. f[m + 1] = CardRows(f[m], npus[m + 1])
    BY <1>1, <2>1 DEF ReadsTo
  <2>3. npus[m + 1] \in Npu
    BY <2>1
  <2>4. Printed(f[m + 1]) = Append(Printed(f[m]), Number(npus[m + 1]))
    <3> DEFINE npu == npus[m + 1]
               s == NameRow(f[m], npu.index)
               t == BusRow(s, npu.phy)
    <3>1. /\ s.named = TRUE /\ s.index = npu.index /\ s.lines = Printed(f[m])
          /\ DOMAIN s = {"named", "index", "lines"}
      BY DEF NameRow, Printed
    <3> HIDE DEF s
    <3>2. /\ t.named = FALSE
          /\ t.lines = Append(s.lines, IF npu.phy = None THEN s.index
                                                       ELSE npu.phy)
      BY <3>1 DEF BusRow
    <3>3. f[m + 1] = IF npu.bus THEN t ELSE s
      BY <2>2 DEF CardRows, s
    <3> HIDE DEF t
    <3>4. Printed(s) = Append(s.lines, npu.index)
      BY <3>1 DEF Printed
    <3>5. Printed(t) = t.lines
      BY <3>2 DEF Printed
    <3>6. CASE npu.bus
      BY <3>1, <3>2, <3>3, <3>5, <3>6 DEF Number
    <3>7. CASE ~npu.bus
      BY <3>1, <3>3, <3>4, <3>7 DEF Number
    <3> QED
      BY <3>6, <3>7
  <2>5. Append(Numbers(npus, m), Number(npus[m + 1])) = Numbers(npus, m + 1)
    BY <2>1, AppendNumber
  <2> QED
    BY <1>4, <2>1, <2>4, <2>5
<1> HIDE DEF S
<1>5. 0 .. Len(npus) \subseteq S
  BY <1>1, <1>3, <1>4, Induction
<1>6. Len(npus) \in S
  BY <1>1, <1>5
<1> QED
  BY <1>6 DEF S

(* CardLines is what the owner of the machine counts.                      *)
LEMMA CardLinesTrue ==
  ASSUME NEW h \in Host
  PROVE  CardLines(h) = Cards(h) /\ Cards(h) \in Seq(Nat)
<1> DEFINE npus == IF h.smi = "works" THEN h.npus ELSE <<>>
<1>1. npus \in Seq(Npu)
  BY DEF Host
<1>2. PICK f : /\ ReadsTo(npus, Len(npus), f)
               /\ CardLines(h) = Printed(f[Len(npus)])
  <2> DEFINE f == CHOOSE f : ReadsTo(npus, Len(npus), f)
  <2>1. ReadsTo(npus, Len(npus), f)
    BY <1>1, ReadExists
  <2>2. CardLines(h) = Printed(f[Len(npus)])
    BY DEF CardLines, ReadsTo, Printed, Start
  <2> QED
    BY <2>1, <2>2
<1>3. CardLines(h) = Numbers(npus, Len(npus))
  BY <1>1, <1>2, ReadPrints
<1>4. Numbers(npus, Len(npus)) = Cards(h)
  BY <1>1 DEF Numbers, Number, Cards
<1>5. Numbers(npus, Len(npus)) \in Seq(Nat)
  <2>1. \A i \in 1 .. Len(npus) : npus[i] \in Npu
    BY <1>1
  <2>2. \A i \in 1 .. Len(npus) : Number(npus[i]) \in Nat
    BY <2>1 DEF Number, Npu
  <2>3. Len(npus) \in Nat
    BY <1>1
  <2> QED
    BY <2>2, <2>3 DEF Numbers
<1> QED
  BY <1>3, <1>4, <1>5
-----------------------------------------------------------------------------
(* The inductive invariant.                                                *)

Call == [pc : Pc, config : Configs \cup {None}, host : Hosts \cup {None},
         facts : [status : Status \cup Legacy \cup {None},
                  cards : Seq(Nat) \cup {None}],
         probe : BOOLEAN]

(* What a process knows is from its entry, as it was loaded, and from the  *)
(* machine, as it was met.                                                 *)
CallInv(c) ==
    /\ c.pc \in {"asking", "listing", "probing"} => c.config \in Configs
    /\ c.pc = "asking" => c.config.known
    /\ c.pc \in {"judged", "opened", "verified"} =>
          /\ c.config \in Configs /\ c.facts \in Facts
          /\ IF c.config.known
             THEN c.host \in Hosts /\ c.facts \in Outcomes(c.host, c.config)
             ELSE c.facts.status = "unreachable"
    /\ c.pc = "listed" /\ c.probe =>
          /\ c.host \in Hosts
          /\ c.host.reach /\ c.host.up => c.facts.cards = CardLines(c.host)

VarType ==
    /\ host \in Hosts /\ config \in Configs /\ doc \in Legacy
    /\ file \in File
    /\ sole \in [Procs -> BOOLEAN]
    /\ last \in Facts \cup {None}
    /\ events \in 0 .. MaxEvents

CallsInv == call \in [Procs -> Call] /\ \A p \in Procs : CallInv(call[p])

(* A process with sole access finds the file as it has left it, and the    *)
(* last complete text is still there.                                      *)
FileInv ==
    /\ \A p \in Procs : sole[p] =>
          /\ \A o \in Procs \ {p} : call[o].pc # "opened"
          /\ call[p].pc = "opened" => file.text = "empty"
    /\ last # None =>
          /\ file = [text |-> "whole", facts |-> last]
          /\ \A p \in Procs : call[p].pc # "opened"

IndInv == VarType /\ CallsInv /\ FileInv

CallStep(p, c) == c \in Call /\ CallInv(c) /\ call' = [call EXCEPT ![p] = c]

(* A step of one call that keeps the call's invariant keeps them all.      *)
LEMMA CallsFollow ==
  ASSUME CallsInv, NEW p \in Procs, NEW c, CallStep(p, c)
  PROVE  /\ CallsInv'
         /\ call'[p] = c
         /\ \A q \in Procs \ {p} : call'[q] = call[q]
BY DEF CallsInv, CallStep

(* Verdicts are statuses, and outcomes are facts.                          *)
LEMMA JudgeType ==
  ASSUME NEW f, NEW c
  PROVE  Judge(f, c) \in {"ok", "needs_up", "degraded"}
BY DEF Judge

LEMMA OutcomesType ==
  ASSUME NEW h \in Hosts, NEW c \in Configs
  PROVE  Outcomes(h, c) \subseteq Facts
<1> SUFFICES ASSUME NEW o \in Outcomes(h, c) PROVE o \in Facts
  OBVIOUS
<1>1. CASE ~h.reach \/ ~h.up
  BY <1>1 DEF Outcomes, Facts, Status
<1>2. CASE h.reach /\ h.up
  <2>1. PICK f \in Parsed(h, c) :
           o = IF f = None THEN [status |-> "degraded", cards |-> None]
               ELSE [status |-> Judge(f, c), cards |-> f["cards"]]
    BY <1>2 DEF Outcomes
  <2>2. CASE f = None
    BY <2>1, <2>2 DEF Facts, Status
  <2>3. CASE f # None
    <3>1. PICK S \in SUBSET Keys :
             f = [k \in Keys |-> IF k \in S THEN Puts(h, c)[k] ELSE None]
      BY <2>3 DEF Parsed
    <3>2. f["cards"] \in {None, Puts(h, c)["cards"]}
      BY <3>1 DEF Keys
    <3>3. Puts(h, c)["cards"] \in {None, CardLines(h)}
      BY DEF Puts, Keys
    <3>4. CardLines(h) \in Seq(Nat)
      BY CardLinesTrue, VerifyAssumption
    <3> QED
      BY <2>1, <2>3, <3>2, <3>3, <3>4, JudgeType DEF Facts, Status
  <2> QED
    BY <2>2, <2>3
<1> QED
  BY <1>1, <1>2

LEMMA NoCallInv == NoCall \in Call /\ CallInv(NoCall)
BY DEF NoCall, NoFacts, Call, CallInv, Pc

LEMMA SummaryType ==
  ASSUME VarType
  PROVE  Summary \in [status : Status \cup Legacy \cup {None},
                      cards : Seq(Nat) \cup {None}]
<1>1. CASE file.text = "whole"
  BY <1>1 DEF Summary, VarType, File, Facts
<1>2. CASE file.text # "whole"
  BY <1>2 DEF Summary, VarType
<1> QED
  BY <1>1, <1>2

(* One lemma for each operation: the call afterwards.                      *)
LEMMA VerifyCalledStep ==
  ASSUME IndInv, NEW p \in Procs, VerifyCalled(p)
  PROVE  \E c : CallStep(p, c) /\ c.pc \in {"asking", "judged"}
<1> DEFINE b == call[p]
           out == [status |-> "unreachable", cards |-> None]
           c == [b EXCEPT !.pc = "asking", !.config = config]
           d == [b EXCEPT !.pc = "judged", !.config = config, !.facts = out]
<1>1. b \in Call /\ config \in Configs
  BY DEF IndInv, CallsInv, VarType
<1>2. CASE config.known
  <2>1. call' = [call EXCEPT ![p] = c]
    BY <1>2 DEF VerifyCalled, Goes
  <2>2. c \in Call /\ CallInv(c) /\ c.pc = "asking"
    BY <1>1, <1>2 DEF Call, CallInv, Pc
  <2> QED
    BY <2>1, <2>2 DEF CallStep
<1>3. CASE ~config.known
  <2>1. call' = [call EXCEPT ![p] = d]
    BY <1>3 DEF VerifyCalled, Goes
  <2>2. d \in Call /\ CallInv(d) /\ d.pc = "judged"
    BY <1>1, <1>3 DEF Call, CallInv, Pc, Facts, Status
  <2> QED
    BY <2>1, <2>2 DEF CallStep
<1> QED
  BY <1>2, <1>3

LEMMA VerifiesStep ==
  ASSUME IndInv, NEW p \in Procs, Verifies(p)
  PROVE  \E c : CallStep(p, c) /\ c.pc = "judged"
<1> DEFINE b == call[p]
<1>1. PICK facts \in Outcomes(host, b.config) :
         Goes(p, [b EXCEPT !.pc = "judged", !.host = host, !.facts = facts])
  BY DEF Verifies
<1> DEFINE c == [b EXCEPT !.pc = "judged", !.host = host, !.facts = facts]
<1>2. /\ b \in Call /\ host \in Hosts
      /\ b.config \in Configs /\ b.config.known
  BY DEF IndInv, CallsInv, CallInv, VarType, Verifies
<1>3. facts \in Facts
  BY <1>2, OutcomesType
<1>4. c \in Call /\ c.pc = "judged"
  BY <1>2, <1>3 DEF Call, Pc, Facts
<1>5. CallInv(c)
  BY <1>2, <1>3 DEF Call, CallInv
<1> QED
  BY <1>1, <1>4, <1>5 DEF CallStep, Goes

LEMMA OpensStep ==
  ASSUME IndInv, NEW p \in Procs, Opens(p)
  PROVE  \E c : CallStep(p, c) /\ c.pc = "opened"
<1> DEFINE b == call[p]
           c == [b EXCEPT !.pc = "opened"]
<1>1. b \in Call /\ CallInv(b) /\ b.pc = "judged"
  BY DEF IndInv, CallsInv, Opens
<1>2. c \in Call /\ CallInv(c) /\ c.pc = "opened"
  BY <1>1 DEF Call, CallInv, Pc
<1> QED
  BY <1>2 DEF CallStep, Opens, Goes

LEMMA WritesStep ==
  ASSUME IndInv, NEW p \in Procs, Writes(p)
  PROVE  \E c : CallStep(p, c) /\ c.pc = "verified"
<1> DEFINE b == call[p]
           c == [b EXCEPT !.pc = "verified"]
<1>1. b \in Call /\ CallInv(b) /\ b.pc = "opened"
  BY DEF IndInv, CallsInv, Writes
<1>2. c \in Call /\ CallInv(c) /\ c.pc = "verified"
  BY <1>1 DEF Call, CallInv, Pc
<1> QED
  BY <1>2 DEF CallStep, Writes, Goes

LEMMA ListCalledStep ==
  ASSUME IndInv, NEW p \in Procs, NEW probe \in BOOLEAN, ListCalled(p, probe)
  PROVE  \E c : CallStep(p, c) /\ c.pc = "listing"
<1> DEFINE b == call[p]
           c == [b EXCEPT !.pc = "listing", !.config = config, !.probe = probe]
<1>1. b \in Call /\ config \in Configs
  BY DEF IndInv, CallsInv, VarType
<1>2. c \in Call /\ CallInv(c) /\ c.pc = "listing"
  BY <1>1 DEF Call, CallInv, Pc
<1> QED
  BY <1>2 DEF CallStep, ListCalled, Goes

LEMMA ReadsStep ==
  ASSUME IndInv, NEW p \in Procs, Reads(p)
  PROVE  \E c : CallStep(p, c) /\ c.pc \in {"probing", "listed", "idle"}
<1>1. ASSUME file.text = "garbled", Goes(p, NoCall)
      PROVE  \E c : CallStep(p, c) /\ c.pc = "idle"
  <2>1. NoCall.pc = "idle"
    BY DEF NoCall
  <2> QED
    BY <1>1, <2>1, NoCallInv DEF CallStep, Goes
<1>2. ASSUME NEW facts \in Shown,
             Goes(p, [call[p] EXCEPT
                         !.pc = IF call[p].probe THEN "probing" ELSE "listed",
                         !.facts = facts])
      PROVE  \E c : CallStep(p, c) /\ c.pc \in {"probing", "listed"}
  <2> DEFINE b == call[p]
             c == [b EXCEPT !.pc = IF b.probe THEN "probing" ELSE "listed",
                            !.facts = facts]
  <2>1. b \in Call /\ CallInv(b) /\ b.pc = "listing"
    BY DEF IndInv, CallsInv, Reads
  <2>2. facts \in [status : Status \cup Legacy \cup {None},
                   cards : Seq(Nat) \cup {None}]
    BY SummaryType DEF Shown, IndInv
  <2>3. c \in Call /\ c.pc \in {"probing", "listed"}
    BY <2>1, <2>2 DEF Call, Pc
  <2>4. CallInv(c)
    BY <2>1 DEF Call, CallInv
  <2> QED
    BY <1>2, <2>3, <2>4 DEF CallStep, Goes
<1> QED
  BY <1>1, <1>2 DEF Reads

LEMMA ProbesStep ==
  ASSUME IndInv, NEW p \in Procs, Probes(p)
  PROVE  \E c : CallStep(p, c) /\ c.pc = "listed"
<1> DEFINE b == call[p]
           facts == IF ~host.reach \/ ~host.up THEN b.facts
                    ELSE [b.facts EXCEPT !.cards = CardLines(host)]
           c == [b EXCEPT !.pc = "listed", !.host = host, !.facts = facts]
<1>1. b \in Call /\ host \in Hosts
  BY DEF IndInv, CallsInv, VarType
<1>2. CardLines(host) \in Seq(Nat)
  BY <1>1, CardLinesTrue, VerifyAssumption
<1>3. /\ facts \in [status : Status \cup Legacy \cup {None},
                    cards : Seq(Nat) \cup {None}]
      /\ host.reach /\ host.up => facts.cards = CardLines(host)
  BY <1>1, <1>2 DEF Call
<1> HIDE DEF facts
<1>4. c \in Call /\ CallInv(c) /\ c.pc = "listed"
  BY <1>1, <1>3 DEF Call, CallInv, Pc
<1>5. Goes(p, c)
  BY DEF Probes, facts
<1> QED
  BY <1>4, <1>5 DEF CallStep, Goes

LEMMA EndStep ==
  ASSUME IndInv, NEW p \in Procs, Returns(p) \/ Killed(p)
  PROVE  \E c : CallStep(p, c) /\ c.pc = "idle"
<1>1. call' = [call EXCEPT ![p] = NoCall]
  BY DEF Returns, Killed, Goes
<1>2. NoCall.pc = "idle"
  BY DEF NoCall
<1> QED
  BY <1>1, <1>2, NoCallInv DEF CallStep

(* What a step that has nothing to do with the file does.                  *)
Apart(p) ==
    /\ \E c : CallStep(p, c) /\ c.pc # "opened"
    /\ UNCHANGED <<file, sole, last>>

Around == UNCHANGED <<call, file, sole, last>>

LEMMA Steps ==
  ASSUME IndInv, [Next]_vars
  PROVE  \/ \E p \in Procs : Apart(p) \/ Opens(p) \/ Writes(p)
         \/ Around
<1>1. ASSUME NEW p \in Procs, VerifyCalled(p) PROVE Apart(p)
  BY <1>1, VerifyCalledStep DEF VerifyCalled, Apart
<1>2. ASSUME NEW p \in Procs, Verifies(p) PROVE Apart(p)
  BY <1>2, VerifiesStep DEF Verifies, Apart
<1>3. ASSUME NEW p \in Procs, NEW probe \in BOOLEAN, ListCalled(p, probe)
      PROVE  Apart(p)
  BY <1>3, ListCalledStep DEF ListCalled, Apart
<1>4. ASSUME NEW p \in Procs, Reads(p) PROVE Apart(p)
  BY <1>4, ReadsStep DEF Reads, Apart
<1>5. ASSUME NEW p \in Procs, Probes(p) PROVE Apart(p)
  BY <1>5, ProbesStep DEF Probes, Apart
<1>6. ASSUME NEW p \in Procs, Returns(p) \/ Killed(p) PROVE Apart(p)
  BY <1>6, EndStep DEF Returns, Killed, Apart
<1>7. CASE HostChanges \/ ConfigChanges \/ UNCHANGED vars
  BY <1>7 DEF HostChanges, ConfigChanges, vars, Around
<1> QED
  BY <1>1, <1>2, <1>3, <1>4, <1>5, <1>6, <1>7 DEF Next

(* The other variables keep their types.                                   *)
LEMMA VarStep ==
  ASSUME IndInv, [Next]_vars
  PROVE  VarType'
<1>1. VarType
  BY DEF IndInv
<1>2. ASSUME NEW p \in Procs, Opens(p) PROVE VarType'
  <2>1. file' \in File
    BY <1>2 DEF Opens, File
  <2> QED
    BY <1>1, <1>2, <2>1 DEF Opens, VarType
<1>3. ASSUME NEW p \in Procs, Writes(p) PROVE VarType'
  <2>1. call[p].facts \in Facts
    BY <1>3 DEF IndInv, CallsInv, CallInv, Writes
  <2>2. file' \in File
    BY <1>3, <2>1 DEF Writes, File
  <2> QED
    BY <1>1, <1>3, <2>1, <2>2 DEF Writes, VarType
<1>4. CASE host' \in Hosts /\ config' \in Configs /\ events' \in 0 .. MaxEvents
           /\ UNCHANGED <<doc, file, sole, last>>
  BY <1>1, <1>4 DEF VarType
<1>5. Event => events' \in 0 .. MaxEvents
  BY <1>1, VerifyAssumption DEF Event, VarType
<1>6. ASSUME NEW p \in Procs,
             \/ VerifyCalled(p) \/ Verifies(p)
             \/ \E probe \in BOOLEAN : ListCalled(p, probe)
             \/ Reads(p) \/ Probes(p) \/ Returns(p) \/ Killed(p)
      PROVE  VarType'
  BY <1>1, <1>4, <1>5, <1>6
  DEF VarType, VerifyCalled, Verifies, ListCalled, Reads, Probes, Returns,
      Killed
<1>7. CASE HostChanges \/ ConfigChanges \/ UNCHANGED vars
  BY <1>1, <1>4, <1>5, <1>7 DEF VarType, HostChanges, ConfigChanges, vars
<1> QED
  BY <1>2, <1>3, <1>6, <1>7 DEF Next

(* The file and its history, for each kind of step.                        *)
LEMMA ApartFile ==
  ASSUME IndInv, NEW p \in Procs, Apart(p)
  PROVE  FileInv'
<1>1. PICK c : CallStep(p, c) /\ c.pc # "opened"
  BY DEF Apart
<1>2. /\ call'[p].pc # "opened"
      /\ \A q \in Procs \ {p} : call'[q] = call[q]
  BY <1>1, CallsFollow DEF IndInv
<1>3. \A q \in Procs : call'[q].pc = "opened" => call[q].pc = "opened"
  BY <1>2
<1> QED
  BY <1>3 DEF Apart, IndInv, FileInv

LEMMA OpensFile ==
  ASSUME IndInv, NEW p \in Procs, Opens(p)
  PROVE  FileInv'
<1>1. PICK c : CallStep(p, c) /\ c.pc = "opened"
  BY OpensStep
<1>2. \A q \in Procs \ {p} : call'[q] = call[q]
  BY <1>1, CallsFollow DEF IndInv
<1>3. /\ last' = None /\ file'.text = "empty"
      /\ \A q \in Procs : sole'[q] =>
            q = p /\ \A o \in Procs \ {p} : call[o].pc # "opened"
  BY DEF Opens
<1> QED
  BY <1>2, <1>3 DEF FileInv

LEMMA WritesFile ==
  ASSUME IndInv, NEW p \in Procs, Writes(p)
  PROVE  FileInv'
<1>1. PICK c : CallStep(p, c) /\ c.pc = "verified"
  BY WritesStep
<1>2. /\ call'[p].pc = "verified"
      /\ \A q \in Procs \ {p} : call'[q] = call[q]
  BY <1>1, CallsFollow DEF IndInv
<1>3. call[p].pc = "opened" /\ sole' = sole
  BY DEF Writes
<1>4. CASE sole[p]
  <2>1. file' = [text |-> "whole", facts |-> call[p].facts]
    BY <1>3, <1>4 DEF Writes, IndInv, FileInv
  <2>2. last' = call[p].facts
    BY <1>4 DEF Writes
  <2>3. \A q \in Procs : call'[q].pc # "opened"
    BY <1>2, <1>4 DEF IndInv, FileInv
  <2> QED
    BY <2>1, <2>2, <2>3 DEF FileInv
<1>5. CASE ~sole[p]
  <2>1. last' = None
    BY <1>5 DEF Writes
  <2>2. \A q \in Procs : ~sole[q]
    BY <1>3, <1>5 DEF IndInv, FileInv
  <2> QED
    BY <1>3, <2>1, <2>2 DEF FileInv
<1> QED
  BY <1>4, <1>5

(* Every step keeps the inductive invariant.                               *)
LEMMA IndStep ==
  ASSUME IndInv, [Next]_vars
  PROVE  IndInv'
<1>1. CASE Around
  <2>1. CallsInv' /\ FileInv'
    BY <1>1 DEF Around, IndInv, CallsInv, FileInv
  <2> QED
    BY <2>1, VarStep DEF IndInv
<1>2. ASSUME NEW p \in Procs, Apart(p) PROVE IndInv'
  <2>1. CallsInv'
    BY <1>2, CallsFollow DEF Apart, IndInv
  <2> QED
    BY <1>2, <2>1, VarStep, ApartFile DEF IndInv
<1>3. ASSUME NEW p \in Procs, Opens(p) PROVE IndInv'
  <2>1. CallsInv'
    BY <1>3, OpensStep, CallsFollow DEF IndInv
  <2> QED
    BY <1>3, <2>1, VarStep, OpensFile DEF IndInv
<1>4. ASSUME NEW p \in Procs, Writes(p) PROVE IndInv'
  <2>1. CallsInv'
    BY <1>4, WritesStep, CallsFollow DEF IndInv
  <2> QED
    BY <1>4, <2>1, VarStep, WritesFile DEF IndInv
<1> QED
  BY <1>1, <1>2, <1>3, <1>4, Steps

LEMMA StartsRight == Init => IndInv
<1> SUFFICES ASSUME Init PROVE IndInv
  OBVIOUS
<1>1. VarType
  BY VerifyAssumption DEF Init, VarType, File
<1>2. CallsInv
  BY NoCallInv DEF Init, CallsInv
<1>3. FileInv
  BY DEF Init, FileInv
<1> QED
  BY <1>1, <1>2, <1>3 DEF IndInv

(* Every reachable state satisfies the inductive invariant: loaded entries, *)
(* met machines and outcomes belong together, and nobody else has had the  *)
(* file open since the writer whose text counts as the last.               *)
THEOREM Invariant == Spec => []IndInv
<1>1. IndInv /\ [Next]_vars => IndInv'
  BY IndStep
<1> QED
  BY <1>1, StartsRight, PTL DEF Spec

(* Every variable keeps its type, whatever the probe script loses on its   *)
(* way (verify_machine, _write_facts).                                     *)
THEOREM TypeCorrect == Spec => []TypeOK
<1>1. IndInv => TypeOK
  BY DEF IndInv, VarType, CallsInv, Call, CallInv, TypeOK
<1> QED
  BY <1>1, Invariant, PTL

(* After a verify that had the file to itself, every listing shows its     *)
(* verdict and cards until another verify opens the file, whatever         *)
(* overlapping and killed ones had left there (_write_facts,               *)
(* _read_verify_summary).                                                  *)
THEOREM Repairs == Spec => []VerifyRepairs
<1>1. IndInv => VerifyRepairs
  BY DEF IndInv, FileInv, VerifyRepairs, Summary
<1> QED
  BY <1>1, Invariant, PTL

-----------------------------------------------------------------------------
(* The verdict.                                                            *)

(* What the script puts into its file makes an object.                     *)
LEMMA PutsType ==
  ASSUME NEW h \in Hosts, NEW c \in Configs
  PROVE  Puts(h, c) \in Object
<1> SUFFICES ASSUME NEW k \in Keys
             PROVE  Puts(h, c)[k] \in
                       BOOLEAN \cup Nat \cup Seq(Nat) \cup {None}
  BY DEF Puts, Object
<1>1. CardLines(h) \in Seq(Nat) /\ Len(CardLines(h)) \in Nat
  BY CardLinesTrue, VerifyAssumption
<1>2. CASE k = "exists" \/ k = "writable" \/ (c.ascend /\ k = "smi")
  BY <1>2 DEF Puts
<1>3. CASE k \notin {"exists", "writable"} /\ (k = "smi" => ~c.ascend)
  BY <1>1, <1>3 DEF Puts
<1> QED
  BY <1>2, <1>3

(* Where nothing is lost, that object arrives.                             *)
LEMMA SpokenFacts ==
  ASSUME NEW h \in Hosts, NEW c \in Configs, Speaks(h), NEW f \in Parsed(h, c)
  PROVE  f = Puts(h, c) /\ f # None
<1>1. h.python /\ h.space
  BY DEF Speaks
<1>2. f = [k \in Keys |-> IF k \in Keys THEN Puts(h, c)[k] ELSE None]
  BY <1>1 DEF Parsed
<1>3. Puts(h, c) = [k \in Keys |-> Puts(h, c)[k]]
  BY DEF Puts
<1>4. f = Puts(h, c)
  BY <1>2, <1>3
<1> QED
  BY <1>4, PutsType, ObjectAssumption

(* Its facts.                                                              *)
LEMMA PutFacts ==
  ASSUME NEW h \in Hosts, NEW c \in Configs
  PROVE  /\ Puts(h, c)["exists"] = (h.workspace # "missing")
         /\ Puts(h, c)["writable"] = (h.workspace = "writable")
         /\ c.ascend => /\ Puts(h, c)["smi"] = (h.smi # "absent")
                        /\ Puts(h, c)["cards"] = CardLines(h)
                        /\ Puts(h, c)["count"] = Len(CardLines(h))
<1>1. {"exists", "writable", "smi", "count", "cards"} = Keys
  BY DEF Keys
<1>2. Puts(h, c)["exists"] = (h.workspace # "missing")
  BY <1>1 DEF Puts
<1>3. Puts(h, c)["writable"] = (h.workspace = "writable")
  BY <1>1 DEF Puts
<1>4. c.ascend => Puts(h, c)["smi"] = (h.smi # "absent")
  BY <1>1 DEF Puts
<1>5. c.ascend => Puts(h, c)["cards"] = CardLines(h)
  BY <1>1 DEF Puts
<1>6. c.ascend => Puts(h, c)["count"] = Len(CardLines(h))
  BY <1>1 DEF Puts
<1> QED
  BY <1>2, <1>3, <1>4, <1>5, <1>6

(* The outcome where nothing is lost.                                      *)
LEMMA SpokenVerdict ==
  ASSUME NEW h \in Hosts, NEW c \in Configs, h.reach, Speaks(h),
         NEW o \in Outcomes(h, c)
  PROVE  /\ o.status = Judge(Puts(h, c), c)
         /\ c.ascend => o.cards = Cards(h)
<1>1. PICK f \in Parsed(h, c) :
         o = IF f = None THEN [status |-> "degraded", cards |-> None]
             ELSE [status |-> Judge(f, c), cards |-> f["cards"]]
  BY DEF Speaks, Outcomes
<1>2. f = Puts(h, c) /\ f # None
  BY SpokenFacts
<1>3. o.status = Judge(f, c) /\ o.cards = f["cards"]
  BY <1>1, <1>2
<1> QED
  BY <1>2, <1>3, PutFacts, CardLinesTrue, VerifyAssumption

(* The count differs from the configured one exactly where a user would say *)
(* so; a broken driver goes unnoticed only if zero or nothing is expected. *)
LEMMA CountTrue ==
  ASSUME NEW h \in Hosts, NEW c \in Configs, c.ascend, h.smi # "absent",
         h.smi = "broken" => norm_cards(c) \notin {0, None}
  PROVE  CardsDiffer(Puts(h, c), c) <=>
            ~(h.smi = "works" /\ (c.form # "other" => Len(h.npus) = c.cards))
<1>1. Puts(h, c)["count"] = Len(Cards(h))
  BY PutFacts, CardLinesTrue, VerifyAssumption
<1>2. h \in Host /\ c \in Config
  BY VerifyAssumption
<1>3. norm_cards(c) = IF c.form = "other" THEN None ELSE c.cards
  BY <1>2 DEF norm_cards, Config
<1>4. c.cards \in Nat /\ c.cards # None
  BY <1>2, VerifyAssumption DEF Config
<1>5. CASE h.smi = "works"
  <2>1. Len(Cards(h)) = Len(h.npus)
    BY <1>2, <1>5 DEF Cards, Host
  <2> QED
    BY <1>1, <1>3, <1>4, <1>5, <2>1 DEF CardsDiffer
<1>6. CASE h.smi = "broken"
  <2>1. Len(Cards(h)) = 0
    BY <1>6 DEF Cards
  <2> QED
    BY <1>1, <1>3, <1>4, <1>6, <2>1 DEF CardsDiffer
<1> QED
  BY <1>2, <1>5, <1>6 DEF Host

(* _judge says what Fit says.                                              *)
LEMMA JudgeTrue ==
  ASSUME NEW h \in Hosts, NEW c \in Configs,
         h.smi = "broken" => norm_cards(c) \notin {0, None}
  PROVE  LET verdict == Judge(Puts(h, c), c)
         IN  /\ verdict = "needs_up" <=> h.workspace = "missing"
             /\ verdict = "ok" <=> Fit(h, c)
<1> DEFINE f == Puts(h, c)
           verdict == Judge(f, c)
<1>1. /\ f["exists"] = TRUE <=> h.workspace # "missing"
      /\ f["exists"] = FALSE <=> h.workspace = "missing"
      /\ f["writable"] = TRUE <=> h.workspace = "writable"
  BY PutFacts
<1>2. c.ascend => (f["smi"] = TRUE <=> h.smi # "absent")
  BY PutFacts
<1> HIDE DEF f
<1>3. CASE h.workspace = "missing"
  <2>1. verdict = "needs_up"
    BY <1>1, <1>3 DEF Judge
  <2>2. ~Fit(h, c)
    BY <1>3 DEF Fit
  <2> HIDE DEF verdict
  <2> QED
    BY <1>3, <2>1, <2>2 DEF f, verdict
<1>4. CASE h.workspace # "missing"
  <2>1. verdict = IF Issues(f, c) THEN "degraded" ELSE "ok"
    BY <1>1, <1>4 DEF Judge
  <2>2. Issues(f, c) <=> ~Fit(h, c)
    <3>1. CASE ~c.ascend
      BY <1>1, <1>4, <3>1 DEF Issues, Fit
    <3>2. CASE c.ascend /\ h.smi = "absent"
      BY <1>2, <3>2 DEF Issues, Fit
    <3>3. CASE c.ascend /\ h.smi # "absent"
      BY <1>1, <1>2, <1>4, <3>3, CountTrue DEF f, Issues, Fit
    <3> QED
      BY <3>1, <3>2, <3>3
  <2> QED
    <3> HIDE DEF verdict
    <3> QED
      BY <1>4, <2>1, <2>2 DEF f, verdict
<1> QED
  BY <1>3, <1>4 DEF f

(* A verdict is true of the machine that the probe has met, for every      *)
(* machine, number of cards and entry (the script, NPU_PARSE_AWK,          *)
(* norm_cards, _judge, verify_machine).                                    *)
THEOREM Verdict == Spec => []VerdictTrue
<1>1. ASSUME IndInv PROVE VerdictTrue
  <2> SUFFICES ASSUME NEW p \in Procs,
                      call[p].pc \in {"judged", "opened", "verified"}
               PROVE  LET c == call[p].config
                          h == call[p].host
                          verdict == call[p].facts.status
                      IN  IF ~c.known \/ ~h.reach THEN verdict = "unreachable"
                          ELSE Speaks(h) /\ (h.smi = "broken" => norm_cards(c) \notin {0, None}) =>
                               /\ verdict = "needs_up" <=> h.workspace = "missing"
                               /\ verdict = "ok" <=> Fit(h, c)
    BY DEF VerdictTrue
  <2> DEFINE c == call[p].config
             h == call[p].host
             verdict == call[p].facts.status
  <2>1. /\ c \in Configs
        /\ IF c.known THEN h \in Hosts /\ call[p].facts \in Outcomes(h, c)
           ELSE verdict = "unreachable"
    BY <1>1 DEF IndInv, CallsInv, CallInv
  <2>2. CASE ~c.known
    BY <2>1, <2>2
  <2>3. CASE c.known /\ ~h.reach
    BY <2>1, <2>3 DEF Outcomes
  <2>4. CASE c.known /\ h.reach
    <3> SUFFICES ASSUME Speaks(h),
                        h.smi = "broken" => norm_cards(c) \notin {0, None}
                 PROVE  /\ verdict = "needs_up" <=> h.workspace = "missing"
                        /\ verdict = "ok" <=> Fit(h, c)
      BY <2>4
    <3>1. verdict = Judge(Puts(h, c), c)
      BY <2>1, <2>4, SpokenVerdict
    <3> HIDE DEF c, h
    <3> QED
      BY <2>1, <2>4, <3>1, JudgeTrue
  <2> QED
    BY <2>2, <2>3, <2>4
<1> QED
  BY <1>1, Invariant, PTL

(* A verify records and a live probe lists each card once under its own    *)
(* number, in every layout of npu-smi (NPU_PARSE_AWK, verify_machine,      *)
(* _apply_live_probes).                                                    *)
THEOREM CardsListed == Spec => []CardsTrue
<1>1. ASSUME IndInv PROVE CardsTrue
  <2> SUFFICES ASSUME NEW p \in Procs
               PROVE  LET c == call[p].config
                          h == call[p].host
                          cards == call[p].facts.cards
                      IN  /\ call[p].pc = "judged" /\ c.known /\ c.ascend =>
                                (h.reach /\ Speaks(h) => cards = Cards(h))
                          /\ call[p].pc = "listed" /\ call[p].probe =>
                                (h.reach /\ h.up => cards = Cards(h))
    BY DEF CardsTrue
  <2> DEFINE b == call[p]
  <2>1. CallInv(b)
    BY <1>1 DEF IndInv, CallsInv
  <2>2. ASSUME b.pc = "judged", b.config.known, b.config.ascend, b.host.reach,
               Speaks(b.host)
        PROVE  b.facts.cards = Cards(b.host)
    BY <2>1, <2>2, SpokenVerdict DEF CallInv
  <2>3. ASSUME b.pc = "listed", b.probe, b.host.reach, b.host.up
        PROVE  b.facts.cards = Cards(b.host)
    BY <2>1, <2>3, CardLinesTrue, VerifyAssumption DEF CallInv
  <2> QED
    BY <2>2, <2>3
<1> QED
  BY <1>1, Invariant, PTL
=============================================================================
