--------------------------- MODULE MachineVerify ----------------------------
(***************************************************************************)
(* `remote verify', `remote machines' and `remote status' for one machine  *)
(* (machines.py, probes.py): the probe script and what is lost on its way  *)
(* to a verdict, the facts file that verifies overwrite in place without a *)
(* lock, and listings that read it and may ask the machine once more.      *)
(*                                                                         *)
(* Of the facts only those that decide or are listed are kept, of a card   *)
(* its index.  Listings of several machines treat each on its own.         *)
(***************************************************************************)
EXTENDS Naturals, Sequences

CONSTANTS
    Procs,      \* CLI processes
    Hosts,      \* states the machine may be in, see Host
    Configs,    \* entries machines.json may have for it, see Config
    Legacy,     \* verdicts an old Markdown file may show
    MaxEvents,  \* bound on calls, changes and kills
    None

(* reach: ssh connects; up: so does docker exec; space: /tmp has room;     *)
(* npus: npu-smi's two rows for each card, the second of which may be      *)
(* missing (bus) and may hold the card's own number (phy).                 *)
Npu == [index : Nat, bus : BOOLEAN, phy : Nat \cup {None}]
Host == [reach : BOOLEAN, up : BOOLEAN,
         workspace : {"missing", "readonly", "writable"},
         smi : {"absent", "broken", "works"}, npus : Seq(Npu),
         python : BOOLEAN, space : BOOLEAN]

(* tags.chip and tags.cards, which may be written as a number, as digits   *)
(* or as something else; known: the alias is registered.                   *)
Config == [known : BOOLEAN, ascend : BOOLEAN,
           form : {"int", "digits", "other"}, cards : Nat]

ASSUME VerifyAssumption ==
    /\ Hosts \subseteq Host /\ Configs \subseteq Config
    /\ MaxEvents \in Nat /\ None \notin Nat

VARIABLES
    host,       \* the machine
    config,     \* its entry in machines.json
    doc,        \* the verdict in state/docs/<alias>.md
    file,       \* state/docs/<alias>.facts.json
    call,       \* call[p]: what process p is doing
    sole,       \* (history) sole[p]: since p opened the file for writing
                \* nobody else has had it open
    last,       \* (history) the last complete text, if its writer was sole
    events      \* number of calls, changes and kills so far

vars == <<host, config, doc, file, call, sole, last, events>>

Status == {"ok", "needs_up", "unreachable", "degraded"}
Facts == [status : Status, cards : Seq(Nat) \cup {None}]
NoFacts == [status |-> None, cards |-> None]

(* A text is empty from the open to the write, garbled when a shorter one  *)
(* was written over a longer one.                                          *)
File == [text : {"absent", "empty", "garbled"}, facts : {NoFacts}]
            \cup [text : {"whole"}, facts : Facts]

Pc == {"idle", "asking", "judged", "opened", "verified", "listing", "probing",
       "listed"}

(* config: as loaded at the start; host: as the probe saw it.              *)
NoCall == [pc |-> "idle", config |-> None, host |-> None, facts |-> NoFacts,
           probe |-> FALSE]

TypeOK ==
    /\ host \in Hosts /\ config \in Configs /\ doc \in Legacy
    /\ file \in File
    /\ \A p \in Procs :
          /\ call[p].pc \in Pc
          /\ call[p].pc \in {"judged", "opened", "verified"} =>
                call[p].facts \in Facts
    /\ last \in Facts \cup {None}
    /\ events \in 0 .. MaxEvents

Init ==
    /\ host \in Hosts /\ config \in Configs /\ doc \in Legacy
    /\ file = [text |-> "absent", facts |-> NoFacts]
    /\ call = [p \in Procs |-> NoCall]
    /\ sole = [p \in Procs |-> FALSE]
    /\ last = None
    /\ events = 0

-----------------------------------------------------------------------------
(* The probe script.                                                       *)

(* A bus row prints the card whose name row waits for it, under its own    *)
(* number if it shows one.                                                 *)
BusRow(s, phy) ==
    IF s.named
    THEN [s EXCEPT !.named = FALSE,
                   !.lines = Append(@, IF phy = None THEN s.index ELSE phy)]
    ELSE s

(* Faulty variant: a name row forgets the card that still waits.           *)
NameRowForgets(s, index) == [s EXCEPT !.named = TRUE, !.index = index]

(* A name row prints the card that still waits and then waits itself.      *)
NameRow(s, index) ==
    [named |-> TRUE, index |-> index,
     lines |-> IF s.named THEN Append(s.lines, s.index) ELSE s.lines]

(* npu-smi info prints a name row for each card and a bus row for most.    *)
CardRows(s, npu) ==
    IF npu.bus THEN BusRow(NameRow(s, npu.index), npu.phy)
    ELSE NameRow(s, npu.index)

(* NPU_PARSE_AWK: the indices of the CARD lines it prints.  Other rows, all *)
(* of them where npu-smi does not work, are passed over.                   *)
CardLines(h) ==
    LET npus == IF h.smi = "works" THEN h.npus ELSE <<>>
        read[n \in 0 .. Len(npus)] ==
            IF n = 0 THEN [named |-> FALSE, index |-> 0, lines |-> <<>>]
            ELSE CardRows(read[n - 1], npus[n])
        end == read[Len(npus)]
    IN  IF end.named THEN Append(end.lines, end.index) ELSE end.lines

Keys == {"exists", "writable", "smi", "count", "cards"}

(* The JSON objects that the script's text may hold.                       *)
Object == [Keys -> BOOLEAN \cup Nat \cup Seq(Nat) \cup {None}]
ASSUME ObjectAssumption == None \notin Object

(* The facts the script puts into its temporary file.                      *)
Puts(h, c) ==
    [k \in Keys |->
        IF k = "exists" THEN h.workspace # "missing"
        ELSE IF k = "writable" THEN h.workspace = "writable"
        ELSE IF ~c.ascend THEN None
        ELSE IF k = "smi" THEN h.smi # "absent"
        ELSE IF k = "cards" THEN CardLines(h) ELSE Len(CardLines(h))]

(* The objects that can arrive: puts fail silently where /tmp is full, and *)
(* without python the URL of the index is put without quotes, so that the  *)
(* text is no JSON (None).                                                 *)
Parsed(h, c) ==
    LET kept == IF h.space THEN {Keys} ELSE SUBSET Keys
    IN  (IF h.python THEN {} ELSE {None}) \cup
        (IF h.python \/ ~h.space
         THEN {[k \in Keys |-> IF k \in S THEN Puts(h, c)[k] ELSE None] :
                  S \in kept}
         ELSE {})

-----------------------------------------------------------------------------
(* The verdict.                                                            *)

(* Faulty variant: digits in quotes are not taken for a number.            *)
IntCards(c) == IF c.form = "int" THEN c.cards ELSE None

norm_cards(c) == IF c.form \in {"int", "digits"} THEN c.cards ELSE None

CardsDiffer(facts, c) ==
    norm_cards(c) # None /\ facts["count"] # norm_cards(c)

Issues(facts, c) ==
    \/ facts["exists"] = TRUE /\ facts["writable"] # TRUE
    \/ c.ascend /\ (facts["smi"] # TRUE \/ CardsDiffer(facts, c))

Judge(facts, c) ==
    IF facts["exists"] = FALSE THEN "needs_up"
    ELSE IF Issues(facts, c) THEN "degraded" ELSE "ok"

(* Faulty variant: a failed script leaves the verdict open.                *)
OpenOutcomes(h, c) ==
    {IF h.reach THEN NoFacts ELSE [status |-> "unreachable", cards |-> None]}

(* What verify_machine can make of a machine: ssh fails, docker exec or    *)
(* the script fails, the text is no object, or the facts are judged.       *)
Outcomes(h, c) ==
    IF ~h.reach THEN {[status |-> "unreachable", cards |-> None]}
    ELSE IF ~h.up THEN {[status |-> "degraded", cards |-> None]}
    ELSE {IF f = None THEN [status |-> "degraded", cards |-> None]
          ELSE [status |-> Judge(f, c), cards |-> f["cards"]] : f \in Parsed(h, c)}

-----------------------------------------------------------------------------
Goes(p, c) == call' = [call EXCEPT ![p] = c]

Event == events < MaxEvents /\ events' = events + 1

(* `remote verify': an alias that is not registered is unreachable.        *)
VerifyCalled(p) ==
    /\ call[p].pc = "idle" /\ Event
    /\ IF config.known
          THEN Goes(p, [call[p] EXCEPT !.pc = "asking", !.config = config])
          ELSE Goes(p, [call[p] EXCEPT
                           !.pc = "judged", !.config = config,
                           !.facts = [status |-> "unreachable", cards |-> None]])
    /\ UNCHANGED <<host, config, doc, file, sole, last>>

Verifies(p) ==
    /\ call[p].pc = "asking"
    /\ \E facts \in Outcomes(host, call[p].config) :
          Goes(p, [call[p] EXCEPT !.pc = "judged", !.host = host,
                                  !.facts = facts])
    /\ UNCHANGED <<host, config, doc, file, sole, last, events>>

(* Faulty variant: the file is opened without being emptied.               *)
OpensKeeping(p) ==
    /\ call[p].pc = "judged" /\ Goes(p, [call[p] EXCEPT !.pc = "opened"])
    /\ file' = IF file.text = "absent" THEN [file EXCEPT !.text = "empty"]
                                       ELSE file
    /\ sole' = [q \in Procs |-> q = p /\ \A o \in Procs \ {p} :
                                           call[o].pc # "opened"]
    /\ last' = None
    /\ UNCHANGED <<host, config, doc, events>>

(* _write_facts: write_text empties the file and then writes it.           *)
Opens(p) ==
    /\ call[p].pc = "judged" /\ Goes(p, [call[p] EXCEPT !.pc = "opened"])
    /\ file' = [text |-> "empty", facts |-> NoFacts]
    /\ sole' = [q \in Procs |-> q = p /\ \A o \in Procs \ {p} :
                                           call[o].pc # "opened"]
    /\ last' = None
    /\ UNCHANGED <<host, config, doc, events>>

Writes(p) ==
    /\ call[p].pc = "opened" /\ Goes(p, [call[p] EXCEPT !.pc = "verified"])
    /\ \/ file' = [text |-> "whole", facts |-> call[p].facts]
       \/ file.text # "empty" /\ file' = [text |-> "garbled", facts |-> NoFacts]
    /\ last' = IF sole[p] THEN call[p].facts ELSE None
    /\ UNCHANGED <<host, config, doc, sole, events>>

-----------------------------------------------------------------------------
(* _read_verify_summary: a text that is no JSON counts as none.            *)
Summary ==
    IF file.text = "whole" THEN file.facts ELSE [status |-> doc, cards |-> None]

(* `remote machines' and `remote status', with or without --probe.         *)
ListCalled(p, probe) ==
    /\ call[p].pc = "idle" /\ Event
    /\ config.known
    /\ Goes(p, [call[p] EXCEPT !.pc = "listing", !.config = config,
                               !.probe = probe])
    /\ UNCHANGED <<host, config, doc, file, sole, last>>

(* What a listing starts from: `machines' keeps the cards of the snapshot, *)
(* `status' takes its verdict only.                                        *)
Shown == {Summary, [Summary EXCEPT !.cards = None]}

(* A garbled text may also be no UTF-8, which ends the command.            *)
Reads(p) ==
    /\ call[p].pc = "listing"
    /\ \/ \E facts \in Shown :
             Goes(p, [call[p] EXCEPT
                         !.pc = IF call[p].probe THEN "probing" ELSE "listed",
                         !.facts = facts])
       \/ file.text = "garbled" /\ Goes(p, NoCall)
    /\ UNCHANGED <<host, config, doc, file, sole, last, events>>

(* The live probe replaces the cards if it succeeds and leaves them if not.*)
Probes(p) ==
    /\ call[p].pc = "probing"
    /\ Goes(p, [call[p] EXCEPT
                   !.pc = "listed", !.host = host,
                   !.facts = IF ~host.reach \/ ~host.up THEN @
                             ELSE [@ EXCEPT !.cards = CardLines(host)]])
    /\ UNCHANGED <<host, config, doc, file, sole, last, events>>

Returns(p) ==
    /\ call[p].pc \in {"verified", "listed"}
    /\ Goes(p, NoCall)
    /\ UNCHANGED <<host, config, doc, file, sole, last, events>>

(* The process is killed; a file it has opened stays empty.                *)
Killed(p) ==
    /\ call[p].pc # "idle" /\ Event
    /\ Goes(p, NoCall)
    /\ UNCHANGED <<host, config, doc, file, sole, last>>

(* up, down, a full disk, a broken driver; the user's edit.                *)
HostChanges ==
    /\ Event /\ host' \in Hosts \ {host}
    /\ UNCHANGED <<config, doc, file, call, sole, last>>

ConfigChanges ==
    /\ Event /\ config' \in Configs \ {config}
    /\ UNCHANGED <<host, doc, file, call, sole, last>>

Next ==
    \/ \E p \in Procs :
          \/ VerifyCalled(p) \/ Verifies(p) \/ Opens(p) \/ Writes(p)
          \/ \E probe \in BOOLEAN : ListCalled(p, probe)
          \/ Reads(p) \/ Probes(p) \/ Returns(p) \/ Killed(p)
    \/ HostChanges \/ ConfigChanges

Spec == Init /\ [][Next]_vars

-----------------------------------------------------------------------------
(* Properties.                                                             *)

(* The machine's cards as its owner counts them.                           *)
Cards(h) ==
    IF h.smi # "works" THEN <<>>
    ELSE [i \in DOMAIN h.npus |->
             IF h.npus[i].bus /\ h.npus[i].phy # None THEN h.npus[i].phy
                                                     ELSE h.npus[i].index]

(* What a user wants to hear: the machine can be worked on and has the     *)
(* cards its entry names.                                                  *)
Fit(h, c) ==
    /\ h.workspace = "writable"
    /\ c.ascend => /\ h.smi = "works"
                   /\ c.form # "other" => Len(h.npus) = c.cards

(* Where the probe script can say what it has found.                       *)
Speaks(h) == h.up /\ h.python /\ h.space

(* A verdict is true of the machine as the probe has met it, through       *)
(* script, JSON, awk program and judgement: unreachable, needs_up exactly  *)
(* without a workspace, ok exactly when it is fit.  A broken driver goes   *)
(* unnoticed where no number of cards is configured.                       *)
VerdictTrue ==
    \A p \in Procs :
        LET c == call[p].config
            h == call[p].host
            verdict == call[p].facts.status
        IN  call[p].pc \in {"judged", "opened", "verified"} =>
               IF ~c.known \/ ~h.reach THEN verdict = "unreachable"
               ELSE Speaks(h) /\ (h.smi = "broken" => norm_cards(c) \notin {0, None}) =>
                    /\ verdict = "needs_up" <=> h.workspace = "missing"
                    /\ verdict = "ok" <=> Fit(h, c)

(* Whichever layout npu-smi has, verify records and a live probe lists     *)
(* each card once under its own number.                                    *)
CardsTrue ==
    \A p \in Procs :
        LET c == call[p].config
            h == call[p].host
            cards == call[p].facts.cards
        IN  /\ call[p].pc = "judged" /\ c.known /\ c.ascend =>
                  (h.reach /\ Speaks(h) => cards = Cards(h))
            /\ call[p].pc = "listed" /\ call[p].probe =>
                  (h.reach /\ h.up => cards = Cards(h))

(* A verify that has the file to itself repairs whatever overlapping and   *)
(* killed ones have left in it, and then every listing starts from its     *)
(* verdict and cards until the next one opens the file.                    *)
VerifyRepairs == last # None => Summary = last
=============================================================================
