--------------------------- MODULE FirewallApply ---------------------------
(***************************************************************************)
(* The rule generators of the vtysh firewall apply commands               *)
(* (src/wgshell/vtysh/cmd/cmd_fw.c): "sfirewall nat portmap apply" reads  *)
(* CONFIG_DIR/portmap.txt and writes one "config redirect" section per    *)
(* port-map line to /etc/config/sfirewall_nat; "sfirewall filter apply"   *)
(* reads CONFIG_DIR/filter.txt and writes one "config rule" section per   *)
(* filter line to /etc/config/sfirewall_filter.                           *)
(*                                                                         *)
(* A file is a string; fgets, the strip of the last character, strncmp    *)
(* and strtok are operators over strings.  Each step of natStep or         *)
(* filterStep is one iteration of the handler's while (fgets(...)) loop.  *)
(* A written section is a record of its option values; an option the      *)
(* handler leaves out is "".  The open failures and apply_firewall_rules  *)
(* around the loop are actions of VtyshConfig.                             *)
(***************************************************************************)
EXTENDS Integers, Sequences, SequencesExt

CONSTANTS
    NatLines,     \* lines a portmap.txt may hold (without their "\n")
    FilterLines,  \* lines a filter.txt may hold
    MaxLines      \* bound on the lines of one file

ASSUME MaxLines \in Nat \ {0}

VARIABLES
    natTxt,       \* the contents of portmap.txt
    natIn,        \* what fgets has not read yet
    natOut,       \* the redirect sections written so far
    filTxt,       \* the contents of filter.txt
    filIn,
    filOut,       \* the rule sections written so far
    actionIndex,  \* action_index
    count         \* count, the number in option name 'SFIREWALL_FILTER%d'

vars == << natTxt, natIn, natOut, filTxt, filIn, filOut, actionIndex, count >>

-----------------------------------------------------------------------------
(* C string handling                                                       *)

Char(s, i) == SubSeq(s, i, i)

\* The position of the first c in s from i on, or Len(s) + 1.
RECURSIVE IndexFrom(_, _, _)
IndexFrom(s, c, i) ==
    IF i > Len(s) \/ Char(s, i) = c THEN i ELSE IndexFrom(s, c, i + 1)

\* fgets(xbuf, sizeof(xbuf), rfp): the next line, with its "\n" if it has
\* one (lines are far shorter than the 1024-byte buffer).
FgetsLine(t) == LET k == IndexFrom(t, "\n", 1) IN SubSeq(t, 1, IF k > Len(t) THEN Len(t) ELSE k)

FgetsRest(t) == SubSeq(t, Len(FgetsLine(t)) + 1, Len(t))

\* xbuf[strlen(xbuf)-1] = '\0': the last character goes, newline or not.
Chop(x) == SubSeq(x, 1, Len(x) - 1)

\* Successive strtok(..., " ") calls: the maximal runs of non-blanks.
RECURSIVE Strtok(_)
Strtok(s) ==
    IF Len(s) = 0 THEN << >>
    ELSE LET k == IndexFrom(s, " ", 1)
         IN IF k = 1 THEN Strtok(SubSeq(s, 2, Len(s)))
            ELSE << SubSeq(s, 1, k - 1) >> \o Strtok(SubSeq(s, k + 1, Len(s)))

\* !strncmp(xbuf, p, strlen(p)) and then strtok(&xbuf[strlen(p)+1], " "):
\* the words after the prefix and the one character that follows it.
Args(x, p) ==
    IF Len(x) >= Len(p) /\ SubSeq(x, 1, Len(p)) = p
      THEN Strtok(SubSeq(x, Len(p) + 2, Len(x)))
      ELSE << >>

-----------------------------------------------------------------------------
(* sfirewall_nat_portmap_apply                                             *)

\* A port of "0" means any port: its option line is left out.
PortOpt(w) == IF w = "0" THEN "" ELSE w

\* param[0..5] = NUM (vpn|wan) A.B.C.D proto port1 port2; a line with fewer
\* words hits "if (s == NULL) continue;" and writes nothing.
NatSections(x) ==
    LET t == Args(x, "sfirewall nat portmap")
    IN IF Len(t) >= 6
         THEN << [src |-> t[2], dest_ip |-> t[3], proto |-> t[4],
                  src_dport |-> PortOpt(t[5]), dest_port |-> PortOpt(t[6])] >>
         ELSE << >>

-----------------------------------------------------------------------------
(* sfirewall_filter_rules_apply                                            *)

Targets == << "ACCEPT", "DROP", "REJECT" >>

\* action_index changes only for a known action word; otherwise it keeps
\* the value of an earlier line.
ActionIndex(w, i) ==
    CASE w = "permit" -> 0 [] w = "deny" -> 1 [] w = "reject" -> 2 [] OTHER -> i

\* The '|' to ' ' loop over param[10].
RECURSIVE Unbar(_)
Unbar(s) ==
    IF Len(s) = 0 THEN s
    ELSE (IF Char(s, 1) = "|" THEN " " ELSE Char(s, 1)) \o Unbar(SubSeq(s, 2, Len(s)))

AnyOpt(w) == IF w = "any" THEN "" ELSE w

\* One loop iteration on the stripped line x: acc is << sections,
\* action_index, count >>.  A line needs all thirteen words.
FilterIteration(acc, x) ==
    LET t == Args(x, "sfirewall filter")
        a == ActionIndex(t[5], acc[2])
        dir == [lan2wan |-> << "lan", "wan" >>, wan2lan |-> << "wan", "lan" >>]
        ends == IF t[2] \in DOMAIN dir THEN dir[t[2]] ELSE << "", "" >>
        timed == t[12] # "any"
    IN IF Len(t) < 13 THEN acc
       ELSE << Append(acc[1],
                 [src |-> ends[1], dest |-> ends[2], proto |-> t[6],
                  src_ip |-> t[7], src_port |-> AnyOpt(t[8]),
                  dest_ip |-> t[9], dest_port |-> AnyOpt(t[10]),
                  weekdays |-> AnyOpt(Unbar(t[11])),
                  start_time |-> IF timed THEN t[12] ELSE "",
                  stop_time |-> IF timed THEN t[13] ELSE "",
                  target |-> Targets[a + 1], name |-> acc[3]]),
               a, acc[3] + 1 >>

-----------------------------------------------------------------------------
(* The files                                                               *)

\* A file of one to MaxLines lines, ending with "\n" or not.
Text(ls, nl) ==
    FlattenSeq([i \in 1..Len(ls) |-> ls[i] \o (IF i < Len(ls) \/ nl THEN "\n" ELSE "")])

Texts(L) == { Text(ls, nl) : ls \in SeqOf(L, MaxLines) \ {<< >>}, nl \in BOOLEAN }

Init ==
    /\ natTxt \in Texts(NatLines)
    /\ natIn = natTxt
    /\ natOut = << >>
    /\ filTxt \in Texts(FilterLines)
    /\ filIn = filTxt
    /\ filOut = << >>
    /\ actionIndex = 0
    /\ count = 0

\* One iteration of the portmap.txt loop.
natStep ==
    /\ Len(natIn) > 0
    /\ natIn' = FgetsRest(natIn)
    /\ natOut' = natOut \o NatSections(Chop(FgetsLine(natIn)))
    /\ UNCHANGED << natTxt, filTxt, filIn, filOut, actionIndex, count >>

\* One iteration of the filter.txt loop.
filterStep ==
    /\ Len(filIn) > 0
    /\ filIn' = FgetsRest(filIn)
    /\ LET acc == FilterIteration(<< filOut, actionIndex, count >>, Chop(FgetsLine(filIn)))
       IN filOut' = acc[1] /\ actionIndex' = acc[2] /\ count' = acc[3]
    /\ UNCHANGED << natTxt, natIn, natOut, filTxt >>

\* Both loops have read their file to the end.
Done == Len(natIn) = 0 /\ Len(filIn) = 0 /\ UNCHANGED vars

Next == natStep \/ filterStep \/ Done

Spec == Init /\ [][Next]_vars

-----------------------------------------------------------------------------
(* Properties                                                              *)

\* The lines of a file as written: the text between line breaks, and the
\* text after the last "\n" when the file does not end with one.
RECURSIVE LinesAsWritten(_)
LinesAsWritten(t) ==
    IF Len(t) = 0 THEN << >>
    ELSE LET k == IndexFrom(t, "\n", 1)
         IN << SubSeq(t, 1, k - 1) >> \o LinesAsWritten(SubSeq(t, k + 1, Len(t)))

\* The sections the code comments describe ("ex: sfirewall nat portmap 10
\* wan 192.168.8.100 tcp 8080 80" gives src 'wan' ... dest_port '80'),
\* one per line as written.
NatAsWritten(t) ==
    LET ls == LinesAsWritten(t)
    IN FlattenSeq([i \in 1..Len(ls) |-> NatSections(ls[i])])

FilterAsWritten(t) == FoldLeft(FilterIteration, << << >>, 0, 0 >>, LinesAsWritten(t))[1]

\* Once an apply has read its whole file, it has written exactly the
\* sections of the file's lines as written: the newline strip of the
\* fgets loops must not cut a character of a rule.
AppliedAsWritten ==
    /\ Len(natIn) = 0 => natOut = NatAsWritten(natTxt)
    /\ Len(filIn) = 0 => filOut = FilterAsWritten(filTxt)

=============================================================================
