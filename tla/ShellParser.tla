----------------------------- MODULE ShellParser ----------------------------
(***************************************************************************)
(* The parser of the shell (sh.c), on the tokens gettoken() finds.  A      *)
(* parse function returns the command and the tokens that are left; ok is  *)
(* FALSE when it panics.                                                   *)
(***************************************************************************)
EXTENDS Naturals, Sequences, SequencesExt

CONSTANTS Words, MAXARGS

Tokens == Words \cup {"<", ">", "+", "|", "&", ";", "(", ")"}

(* execcmd(), redircmd(), pipecmd(), listcmd() and backcmd()               *)
ExecCmd(argv) == [type |-> "EXEC", argv |-> argv]
RedirCmd(cmd, file, mode, fd) ==
    [type |-> "REDIR", cmd |-> cmd, file |-> file, mode |-> mode, fd |-> fd]
PipeCmd(left, right) == [type |-> "PIPE", left |-> left, right |-> right]
ListCmd(left, right) == [type |-> "LIST", left |-> left, right |-> right]
BackCmd(cmd) == [type |-> "BACK", cmd |-> cmd]

Panic == [ok |-> FALSE, cmd |-> ExecCmd(<< >>), rest |-> << >>]
Parsed(cmd, rest) == [ok |-> TRUE, cmd |-> cmd, rest |-> rest]

(* peek()                                                                  *)
Peek(s, toks) == s # << >> /\ Head(s) \in toks

(* parseredirs(): > and >> both open for writing, without truncation.      *)
Redir(cmd, tok, file) ==
    IF tok = "<" THEN RedirCmd(cmd, file, "O_RDONLY", 0)
    ELSE RedirCmd(cmd, file, "O_WRONLY|O_CREATE", 1)

RECURSIVE ParseRedirs(_, _)
ParseRedirs(cmd, s) ==
    IF ~Peek(s, {"<", ">", "+"}) THEN Parsed(cmd, s)
    ELSE IF Len(s) = 1 \/ s[2] \notin Words THEN Panic
    ELSE ParseRedirs(Redir(cmd, s[1], s[2]), SubSeq(s, 3, Len(s)))

(* The arguments go to the EXEC command inside the redirections.           *)
RECURSIVE WithArg(_, _)
WithArg(cmd, word) ==
    IF cmd.type = "EXEC" THEN [cmd EXCEPT !.argv = Append(@, word)]
    ELSE [cmd EXCEPT !.cmd = WithArg(@, word)]

(* parseexec(): its loop.                                                  *)
RECURSIVE ParseArgs(_, _, _)
ParseArgs(cmd, argc, s) ==
    LET r == ParseRedirs(WithArg(cmd, Head(s)), Tail(s)) IN
    IF s = << >> \/ Peek(s, {"|", ")", "&", ";"}) THEN Parsed(cmd, s)
    ELSE IF Head(s) \notin Words \/ argc + 1 >= MAXARGS \/ ~r.ok THEN Panic
    ELSE ParseArgs(r.cmd, argc + 1, r.rest)

RECURSIVE ParseLine(_), ParsePipe(_), Backs(_)

(* parseblock()                                                            *)
ParseBlock(s) ==
    LET l == ParseLine(Tail(s)) IN
    IF ~l.ok \/ ~Peek(l.rest, {")"}) THEN Panic
    ELSE ParseRedirs(l.cmd, Tail(l.rest))

(* parseexec()                                                             *)
ParseExec(s) ==
    LET r == ParseRedirs(ExecCmd(<< >>), s) IN
    IF Peek(s, {"("}) THEN ParseBlock(s)
    ELSE IF r.ok THEN ParseArgs(r.cmd, 0, r.rest) ELSE Panic

(* parsepipe()                                                             *)
ParsePipe(s) ==
    LET e == ParseExec(s)
        p == ParsePipe(Tail(e.rest)) IN
    IF ~e.ok \/ ~Peek(e.rest, {"|"}) THEN e
    ELSE IF p.ok THEN Parsed(PipeCmd(e.cmd, p.cmd), p.rest) ELSE Panic

(* parseline(): its loop for &.                                            *)
Backs(p) ==
    IF p.ok /\ Peek(p.rest, {"&"}) THEN Backs(Parsed(BackCmd(p.cmd), Tail(p.rest))) ELSE p

(* parseline()                                                             *)
ParseLine(s) ==
    LET b == Backs(ParsePipe(s))
        l == ParseLine(Tail(b.rest)) IN
    IF ~b.ok \/ ~Peek(b.rest, {";"}) THEN b
    ELSE IF l.ok THEN Parsed(ListCmd(b.cmd, l.cmd), l.rest) ELSE Panic

(* parsecmd(): leftovers are an error.                                     *)
ParseCmd(s) == LET l == ParseLine(s) IN IF l.ok /\ l.rest = << >> THEN l ELSE Panic

-----------------------------------------------------------------------------
(* The tokens of a command: the reference the parser is compared with.     *)
RECURSIVE Unparse(_)
Unparse(c) ==
    LET paren(d, types) == IF d.type \in types THEN <<"(">> \o Unparse(d) \o <<")">>
                           ELSE Unparse(d)
    IN  CASE c.type = "EXEC" -> c.argv
          [] c.type = "REDIR" -> paren(c.cmd, {"PIPE", "LIST", "BACK"}) \o
               <<IF c.fd = 0 THEN "<" ELSE ">", c.file>>
          [] c.type = "PIPE" -> paren(c.left, {"PIPE", "LIST", "BACK"}) \o <<"|">> \o
               paren(c.right, {"LIST", "BACK"})
          [] c.type = "LIST" -> paren(c.left, {"LIST"}) \o <<";">> \o Unparse(c.right)
          [] c.type = "BACK" -> paren(c.cmd, {"LIST"}) \o <<"&">>

(* The parser and the grammar agree on every sequence of tokens s: what it *)
(* accepts means what it says, with the precedence and the grouping of |,  *)
(* &, ; and (), and of the lines without redirection and parentheses it    *)
(* rejects those with too many arguments or a command after &, no other.   *)
ParserAgrees(s) ==
    LET p == ParseCmd(s)
        plain == Range(s) \subseteq Words \cup {"|", "&", ";"}
        afterBack == \E i \in 1..(Len(s) - 1) : s[i] = "&" /\ s[i + 1] \in Words \cup {"|"}
        tooLong == \E i \in 1..Len(s) : i + MAXARGS - 1 <= Len(s) /\
                     \A j \in i..(i + MAXARGS - 1) : s[j] \in Words
    IN  /\ p.ok => ParseCmd(Unparse(p.cmd)) = p
        /\ plain => /\ p.ok <=> ~afterBack /\ ~tooLong
                    /\ p.ok => Unparse(p.cmd) = s
=============================================================================
