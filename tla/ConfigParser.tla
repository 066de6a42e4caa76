---------------------------- MODULE ConfigParser ----------------------------
(***************************************************************************)
(* ConfigParser: parse() and validate(), one line of the file a step.  The *)
(* file is written by hand: it is a well-formed one, or one with a line    *)
(* missing or a closing brace too many.                                    *)
(*                                                                         *)
(* readConfigFile leaves lines without comments and surrounding blanks,    *)
(* none of them empty.  A line is its first word, its value and whether it *)
(* contains an opening brace; of the directives of a server only the port  *)
(* is kept, of those of a location only the methods, and a CGI handler is  *)
(* the line that names it.                                                 *)
(***************************************************************************)
EXTENDS Integers, Sequences, FiniteSets, SequencesExt

CONSTANTS
  Written,     \* the configurations files are written for: sequences of servers
  Styles,      \* the ways they are laid out
  MaxErrors    \* bound: errors told apart

\* A CGI handler is a line of one word, which is not one of those that mean
\* something inside a server; a server has finitely many.
Word == STRING
Handlers == {h \in [key : Word, value : {0}, brace : {FALSE}] :
              h.key \notin {"closingBrace", "location", "port"}}

ASSUME ConfigAssumption ==
  /\ Written \subseteq Seq([port : Int, locations : Seq([path : Word, methods : Seq(Word)]),
                            cgi : SUBSET Handlers])
  /\ \A w \in Written : \A i \in DOMAIN w : IsFiniteSet(w[i].cgi)
  /\ Styles \subseteq {"inline", "nextLine", "cgiBehind", "cgiAhead"} /\ MaxErrors \in Nat \ {0}

-----------------------------------------------------------------------------
(* Lines, and the file somebody writes for a configuration. *)

Line(key, value, brace) == [key |-> key, value |-> value, brace |-> brace]
OpenBrace == Line("openingBrace", 0, TRUE)    \* {
CloseBrace == Line("closingBrace", 0, FALSE)  \* }

\* A block: its first line, with the brace in the line or in the next one.
Block(key, value, body, style) ==
  (IF style = "nextLine" THEN <<Line(key, value, FALSE), OpenBrace>>
                         ELSE <<Line(key, value, TRUE)>>) \o body \o <<CloseBrace>>

LocationText(l, style) ==
  Block("location", l.path, IF l.methods = <<"GET">> THEN <<Line("root", 0, FALSE)>>
                            ELSE <<Line("allowed_methods", l.methods, FALSE)>>, style)
CgiText(s, style) ==
  IF s.cgi = {} THEN <<>> ELSE Block("cgi", 0, SetToSeq(s.cgi), style)
ServerText(s, style) ==
  LET CgiIf(here) == IF here THEN CgiText(s, style) ELSE <<>>
  IN CgiIf(style = "cgiAhead")
       \o Block("server", 0,
                <<Line("server_name", 0, FALSE), Line("port", s.port, FALSE)>>
                  \o FlattenSeq([i \in DOMAIN s.locations |-> LocationText(s.locations[i], style)])
                  \o CgiIf(style \in {"inline", "nextLine"}), style)
       \o CgiIf(style = "cgiBehind")
FileText(w, style) == FlattenSeq([i \in DOMAIN w |-> ServerText(w[i], style)])

-----------------------------------------------------------------------------
VARIABLES
  written, style, \* what the file was written for, and how
  damage,         \* where a line is missing or a brace is too many; 0 nowhere
  lines, current, \* _configLines and _currentLine
  mode,           \* the function that looks at the current line
  configs,        \* the servers parsed
  server, location, \* the ones being parsed
  errors,         \* number of _errors
  valid           \* what validate() returned

fileVars == <<written, style, damage, lines>>
configVars == <<written, style, damage, lines, current, mode, configs, server, location,
                errors, valid>>

NewServer == [port |-> 8080, locations |-> <<>>, cgi |-> {}]
NewLocation == [path |-> "empty", methods |-> <<"GET">>]

ConfigInit ==
  /\ written \in Written /\ style \in Styles
  /\ \E d \in 0..Len(FileText(written, style)), brace \in BOOLEAN :
       /\ damage = d
       /\ lines = LET t == FileText(written, style) IN
            IF d = 0 THEN t
            ELSE IF brace THEN InsertAt(t, d, CloseBrace) ELSE RemoveAt(t, d)
  /\ current = 1 /\ mode = "parse" /\ configs = <<>>
  /\ server = NewServer /\ location = NewLocation /\ errors = 0 /\ valid = FALSE

-----------------------------------------------------------------------------
HasMoreLines == current <= Len(lines)
At(m) == mode = m /\ HasMoreLines
TheLine == lines[current]
HasServer(l) == l.key \in {"server", "server_name"}
IsBlockStart(l) == l = OpenBrace \/ l = Line("server", 0, TRUE)
IsCgi(l) == l.key = "cgi" /\ l.brace
IsLocation(l) == l.key = "location"
Advance == current' = current + 1 /\ UNCHANGED <<fileVars, valid>>
AddError == errors' = IF errors < MaxErrors THEN errors + 1 ELSE errors
PushLocation == server' = [server EXCEPT !.locations = Append(@, location)]

-----------------------------------------------------------------------------
(* parse(): a line with "server" anywhere in it starts a server. *)

ParseServerLine ==
  /\ At("parse") /\ HasServer(TheLine)
  /\ server' = NewServer /\ mode' = "opening"
  /\ Advance /\ UNCHANGED <<configs, location, errors>>

\* A CGI block behind a server belongs to it.
CgiOwner == Len(configs)
ParseCgiLine ==
  /\ At("parse") /\ IsCgi(TheLine) /\ configs # <<>>
  /\ mode' = "cgiBehind"
  /\ Advance /\ UNCHANGED <<configs, server, location, errors>>

\* Before any server an error is added and the line stays the current one.
ParseCgiFirst ==
  /\ At("parse") /\ IsCgi(TheLine) /\ configs = <<>>
  /\ AddError /\ UNCHANGED <<fileVars, current, mode, configs, server, location, valid>>

GivesUp == <<>>   \* mutant: an error ends the parse with nothing
AfterError == configs
StaysThere == current   \* mutant: an error does not advance here either
NextLine == current + 1
ParseUnexpected ==
  /\ At("parse") /\ ~HasServer(TheLine) /\ ~IsCgi(TheLine)
  /\ AddError /\ current' = NextLine /\ configs' = AfterError
  /\ UNCHANGED <<fileVars, mode, server, location, valid>>

-----------------------------------------------------------------------------
(* parseServer, after the server line. *)

SkipOpening ==
  /\ At("opening") /\ IsBlockStart(TheLine) /\ mode' = "server"
  /\ Advance /\ UNCHANGED <<configs, server, location, errors>>

InServer == At("server") \/ (At("opening") /\ ~IsBlockStart(TheLine))

ServerEnd ==
  /\ InServer /\ TheLine = CloseBrace
  /\ configs' = Append(configs, server) /\ mode' = "parse"
  /\ Advance /\ UNCHANGED <<server, location, errors>>
ServerLocation ==
  /\ InServer /\ IsLocation(TheLine)
  /\ location' = [NewLocation EXCEPT !.path = TheLine.value]
  /\ mode' = IF TheLine.brace THEN "location" ELSE "brace"
  /\ Advance /\ UNCHANGED <<configs, server, errors>>
ServerCgi ==
  /\ InServer /\ IsCgi(TheLine) /\ mode' = "cgi"
  /\ Advance /\ UNCHANGED <<configs, server, location, errors>>
\* parseDirective; a word it does not know, a stray brace included, is ignored.
ServerDirective ==
  /\ InServer /\ TheLine # CloseBrace /\ ~IsLocation(TheLine) /\ ~IsCgi(TheLine)
  /\ server' = IF TheLine.key = "port" THEN [server EXCEPT !.port = TheLine.value] ELSE server
  /\ mode' = "server"
  /\ Advance /\ UNCHANGED <<configs, location, errors>>

-----------------------------------------------------------------------------
(* parseLocation: skips to the line with the brace, then reads directives. *)

LocationBrace ==
  /\ At("brace") /\ mode' = IF TheLine.brace THEN "location" ELSE "brace"
  /\ Advance /\ UNCHANGED <<configs, server, location, errors>>
LocationEnd ==
  /\ At("location") /\ TheLine = CloseBrace /\ PushLocation /\ mode' = "server"
  /\ Advance /\ UNCHANGED <<configs, location, errors>>
AddedMethods(l, ms) == l.methods \o ms   \* mutant: the default is not cleared
Methods(l, ms) == ms
LocationDirective ==
  /\ At("location") /\ TheLine # CloseBrace
  /\ location' = IF TheLine.key = "allowed_methods"
                   THEN [location EXCEPT !.methods = Methods(location, TheLine.value)]
                   ELSE location
  /\ Advance /\ UNCHANGED <<mode, configs, server, errors>>

-----------------------------------------------------------------------------
(* parseCGI: every line up to a closing brace names a handler. *)

CgiEnd ==
  /\ At("cgi") \/ At("cgiBehind")
  /\ TheLine = CloseBrace
  /\ mode' = IF mode = "cgi" THEN "server" ELSE "parse"
  /\ Advance /\ UNCHANGED <<configs, server, location, errors>>
CgiHandler ==
  /\ At("cgi") /\ TheLine # CloseBrace
  /\ server' = [server EXCEPT !.cgi = @ \cup {TheLine}]
  /\ Advance /\ UNCHANGED <<mode, configs, location, errors>>
CgiHandlerBehind ==
  /\ At("cgiBehind") /\ TheLine # CloseBrace
  /\ configs' = [configs EXCEPT ![CgiOwner].cgi = @ \cup {TheLine}]
  /\ Advance /\ UNCHANGED <<mode, server, location, errors>>

-----------------------------------------------------------------------------
(* The end of the file ends every block that is still open, without an error; *)
(* then validate() looks at the servers.                                      *)

EndOfFile ==
  /\ ~HasMoreLines /\ mode \notin {"validate", "done"}
  /\ LET s == IF mode \in {"brace", "location"}
                THEN [server EXCEPT !.locations = Append(@, location)] ELSE server
     IN configs' = IF mode \in {"parse", "cgiBehind"} THEN configs ELSE Append(configs, s)
  /\ mode' = "validate"
  /\ UNCHANGED <<fileVars, current, server, location, errors, valid>>

Distinct(ps) == \A i, j \in DOMAIN ps : ps[i] = ps[j] => i = j
Valid(ss) ==
  /\ Distinct([i \in DOMAIN ss |-> ss[i].port])
  /\ \A i \in DOMAIN ss :
       /\ ss[i].port > 0 /\ ss[i].port < 65536
       /\ Distinct([j \in DOMAIN ss[i].locations |-> ss[i].locations[j].path])

\* The errors of the parse are not looked at.
Validate ==
  /\ mode = "validate" /\ valid' = Valid(configs) /\ mode' = "done"
  /\ UNCHANGED <<fileVars, current, configs, server, location, errors>>

-----------------------------------------------------------------------------
ConfigNext ==
  \/ ParseServerLine \/ ParseCgiLine \/ ParseCgiFirst \/ ParseUnexpected
  \/ SkipOpening \/ ServerEnd \/ ServerLocation \/ ServerCgi \/ ServerDirective
  \/ LocationBrace \/ LocationEnd \/ LocationDirective
  \/ CgiEnd \/ CgiHandler \/ CgiHandlerBehind \/ EndOfFile \/ Validate

ConfigSpec == ConfigInit /\ [][ConfigNext]_configVars /\ WF_configVars(ConfigNext)

-----------------------------------------------------------------------------
(* Properties. *)

\* A CGI block is read as its server's inside it or behind it, with the brace in
\* its first line.
CgiIsRead == style \in {"inline", "cgiBehind"}

\* The first k servers of the file were parsed as they were written; handlers
\* of a later one may have been added to theirs.
KeptUpTo(k) ==
  /\ Len(configs) >= k
  /\ \A i \in 1..k : /\ configs[i].port = written[i].port
                     /\ configs[i].locations = written[i].locations
                     /\ CgiIsRead => written[i].cgi \subseteq configs[i].cgi

\* All ports are ports, no two servers share one, and no two locations of a
\* server a path.
MaxPort == 65535
PathsDiffer(ls) == Cardinality({l.path : l \in Range(ls)}) = Len(ls)
Acceptable(ss) ==
  \A i, j \in DOMAIN ss :
    /\ ss[i].port \in 1..MaxPort /\ PathsDiffer(ss[i].locations)
    /\ i # j => ss[i].port # ss[j].port

\* A well-formed file gives the configuration it was written for, wherever the
\* braces are and wherever the CGI block stands, and is accepted exactly if that
\* is acceptable.
ParsedAsWritten ==
  mode = "done" /\ damage = 0 /\ (CgiIsRead \/ \A i \in DOMAIN written : written[i].cgi = {})
    => configs = written /\ (valid <=> Acceptable(written))

\* A line that is missing, or a brace too many, never harms the servers before it.
EarlierServersKept ==
  mode = "done" =>
    \A k \in DOMAIN written :
      damage = 0 \/ Len(FileText(SubSeq(written, 1, k), style)) < damage => KeptUpTo(k)

\* parse() ends, whatever the file, unless a CGI block precedes all servers: on
\* that one it stays for ever.
Hangs(ls) == \E i \in DOMAIN ls : IsCgi(ls[i]) /\ \A j \in 1..(i - 1) : ~HasServer(ls[j])
Ends == (current = 1 /\ ~Hangs(lines)) ~> (mode = "done")
==============================================================================
