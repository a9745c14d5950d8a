------------------------------ MODULE P4Client ------------------------------
(***************************************************************************)
(* The text formats of p4lib: the client spec that Client parses and       *)
(* ClientSet prints (p4.go, p4_impl.go), the change spec that ChangeUpdate *)
(* rewrites, and the commands that AddDir splits a directory into.         *)
(*                                                                         *)
(* A line is the sequence of its words.  A word that ends with a colon is  *)
(* in FieldTokens, "#" starts a comment.  A spec is a sequence of lines.   *)
(***************************************************************************)
EXTENDS Naturals, Sequences, SequencesExt

NoBlock == "none"
OneValueFields == {"Client:", "Owner:", "Root:", "LineEnd:", "Host:", "Stream:", "StreamAtChange:",
                   "ServerID:"}
ListFields == {"Options:", "SubmitOptions:", "AltRoots:"}
BlockFields == {"ChangeView:", "Description:", "View:"}
\* "Note:" stands for a word of a text that happens to end with a colon.
FieldTokens == OneValueFields \cup ListFields \cup BlockFields \cup {"Note:"}

\* Client, a field of the struct for each field of the spec: the sequence of its words, or of
\* its lines for a block, empty when it has no value.
EmptyClient == [f \in OneValueFields \cup ListFields \cup BlockFields |-> <<>>]
Mandatory == {"Client:", "Owner:", "Root:", "Options:", "SubmitOptions:", "LineEnd:", "View:"}
verifyClient(c) == \A f \in Mandatory : c[f] # <<>>

-----------------------------------------------------------------------------
(* Options. *)

clientOptionInverse ==
    LET pairs == {<<"allwrite", "noallwrite">>, <<"clobber", "noclobber">>,
                  <<"compress", "nocompress">>, <<"locked", "unlocked">>,
                  <<"modtime", "nomodtime">>, <<"rmdir", "normdir">>}
    IN  [o \in {p[1] : p \in pairs} \cup {p[2] : p \in pairs} |->
            CHOOSE q \in UNION {{p[1], p[2]} : p \in pairs} :
                <<o, q>> \in pairs \/ <<q, o>> \in pairs]
clientOptions == DOMAIN clientOptionInverse

\* Mutant: the inverse is not looked for.
AppendClientOptionMut(options, option) ==
    IF Contains(options, option) THEN options ELSE Append(options, option)
\* The first of the option and its inverse decides.
AppendClientOption(options, option) ==
    LET at == SelectInSeq(options, LAMBDA o : o \in {option, clientOptionInverse[option]})
    IN  IF at = 0 THEN Append(options, option) ELSE [options EXCEPT ![at] = option]

\* addOptions, when every word is an option.
addOptions(options, words) == FoldLeft(AppendClientOption, options, words)

-----------------------------------------------------------------------------
(* Client.String. *)

OneLine(c, f) == IF c[f] = <<>> THEN <<>> ELSE <<(<<f>> \o c[f])>>
LineFields == <<"Client:", "Owner:", "Host:", "Root:", "Options:", "SubmitOptions:", "LineEnd:",
                "AltRoots:", "Stream:", "StreamAtChange:", "ServerID:">>
\* Mutant: the view is written before its header.
StringMut(c) ==
    FlattenSeq([i \in 1 .. 11 |-> OneLine(c, LineFields[i])]) \o c["View:"] \o <<<<"View:">>>>
\* Neither the description nor the change view is written.
String(c) ==
    FlattenSeq([i \in 1 .. 11 |-> OneLine(c, LineFields[i])])
        \o (IF c["View:"] = <<>> THEN <<>> ELSE <<<<"View:">>>> \o c["View:"])

-----------------------------------------------------------------------------
(* parseClient: a fold over the lines that remembers the block field it is in. *)

Blank(line) == line = <<>>
Comment(line) == line # <<>> /\ line[1] = "#"
isFieldToken(line) == line # <<>> /\ line[1] \in FieldTokens
Failed(st) == [st EXCEPT !.ok = FALSE]

\* The inner loops: the line belongs to the block that is open.
BlockLine(st, line) ==
    IF st.block # "Description:" /\ (Blank(line) \/ Comment(line)) THEN st
    ELSE IF st.block = "View:" /\ Len(line) # 2 THEN Failed(st)
    ELSE [st EXCEPT !.client[st.block] = Append(@, line)]

\* The switch on the first word.
FieldLine(st, line) ==
    LET f == line[1]
        words == Tail(line)
    IN  CASE f \in BlockFields -> [st EXCEPT !.block = f]
          [] f \notin BlockFields /\ words = <<>> -> Failed(st)
          [] f \in OneValueFields /\ Len(words) > 1 -> Failed(st)
          [] f = "Options:" /\ words # <<>> ->
                IF Range(words) \subseteq clientOptions
                THEN [st EXCEPT !.block = NoBlock, !.client[f] = addOptions(@, words)]
                ELSE Failed(st)
          [] (f \in ListFields \ {"Options:"} /\ words # <<>>) \/ (f \in OneValueFields /\ Len(words) = 1) ->
                [st EXCEPT !.block = NoBlock, !.client[f] = words]
          [] OTHER -> [st EXCEPT !.block = NoBlock]

ParseLine(st, line) ==
    IF ~st.ok THEN st
    ELSE IF st.block # NoBlock /\ ~isFieldToken(line) THEN BlockLine(st, line)
    ELSE IF Blank(line) \/ Comment(line) THEN st
    ELSE FieldLine(st, line)

\* The client, and whether parseClient returns it without an error.
parseClient(lines) ==
    LET st == FoldLeft(ParseLine, [ok |-> TRUE, block |-> NoBlock, client |-> EmptyClient], lines)
    IN  [ok |-> st.ok /\ verifyClient(st.client), client |-> st.client]

-----------------------------------------------------------------------------
(* ChangeUpdate: the lines of "p4 change -o" with the description replaced.  A line is a record
   of its text and of whether it starts with a tab. *)

\* Mutant: copying is not resumed.
ChangeUpdateMut(lines, desc) ==
    FoldLeft(LAMBDA st, line :
        IF line.text = "Description:"
        THEN [copy |-> FALSE, out |-> Append(st.out, line) \o desc]
        ELSE [st EXCEPT !.out = IF st.copy THEN Append(@, line) ELSE @],
        [copy |-> TRUE, out |-> <<>>], lines).out
ChangeUpdate(lines, desc) ==
    FoldLeft(LAMBDA st, line :
        IF line.text = "Description:"
        THEN [copy |-> FALSE, out |-> Append(st.out, line) \o desc]
        ELSE LET copy == st.copy \/ ~line.tab
             IN  [copy |-> copy, out |-> IF copy THEN Append(st.out, line) ELSE st.out],
        [copy |-> TRUE, out |-> <<>>], lines).out

-----------------------------------------------------------------------------
(* AddDir, for the files of one directory, each given by the length of its path.  The files that
   p4 ignores are added with the others: the variable that would tell them is a shadowed one. *)

\* Mutant: the file that did not fit is left out of the next command.
AddFileMut(st, f, cmdLineMax) ==
    IF st.total + f > cmdLineMax THEN [out |-> Append(st.out, st.sub), sub |-> <<>>, total |-> 0]
    ELSE [st EXCEPT !.sub = Append(@, f), !.total = @ + f]
AddFile(st, f, cmdLineMax) ==
    IF st.total + f > cmdLineMax THEN [out |-> Append(st.out, st.sub), sub |-> <<f>>, total |-> f]
    ELSE [st EXCEPT !.sub = Append(@, f), !.total = @ + f]
\* The commands, when none fails.
AddDir(files, cmdLineMax) ==
    LET st == FoldLeft(LAMBDA s, f : AddFile(s, f, cmdLineMax), [out |-> <<>>, sub |-> <<>>, total |-> 0], files)
    IN  IF st.sub = <<>> THEN st.out ELSE Append(st.out, st.sub)
=============================================================================
