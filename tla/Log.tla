-------------------------------- MODULE Log --------------------------------
(***************************************************************************)
(* libs/go/log and cloudlog: a program adds sinks to the global logger,    *)
(* logs, runs commands whose two output streams are logged line by line    *)
(* through infoLoggers on a copy of the logger, and shuts the logger down. *)
(* The streams are written by two goroutines in pieces of any length, and  *)
(* a line goes to one sink after the other.  A sink buffers its entries    *)
(* and may write them out at any time; what is left in the buffer when the *)
(* process exits is lost.                                                  *)
(*                                                                         *)
(* An entry is [from, level, msg]; a message is a sequence of characters.  *)
(* Labels and source locations of entries are left out.                    *)
(***************************************************************************)
EXTENDS Naturals, Sequences, SequencesExt

CONSTANTS
    Texts,        \* what a command may write to a stream
    MaxSaid,      \* bound: messages of the program itself
    MaxCommands   \* bound: commands

NL == "newline"
CR == "return"
Levels == {"debug", "info", "warning", "error"}
AllSinks == {"glog", "cloud"}
Writers == {"stdout", "stderr"}

VARIABLES
    sinks,    \* logger.sinks
    main,     \* the main goroutine: [pc, entry, at]; at is the sink it has come to
    writer,   \* writer[w]: the goroutine that copies a stream, with its infoLogger
    entries,  \* entries[s]: what a sink was given
    out,      \* out[s]: how many of them are written out
    said,     \* history: what main logged, with the sinks of that time
    shown     \* history: shown[w][s]: the streams that were logged to a sink

vars == <<sinks, main, writer, entries, out, said, shown>>

NoEntry == [from |-> "main", level |-> "info", msg |-> <<>>]
NoWriter == [pc |-> "none", sinks |-> <<>>, text |-> <<>>, chunk |-> <<>>, str |-> <<>>, at |-> 0]
Init ==
    /\ sinks = <<>> /\ said = <<>>
    /\ main = [pc |-> "setup", entry |-> NoEntry, at |-> 0, ran |-> 0, unclosed |-> {}]
    /\ writer = [w \in Writers |-> NoWriter]
    /\ entries = [s \in AllSinks |-> <<>>] /\ out = [s \in AllSinks |-> 0]
    /\ shown = [w \in Writers |-> [s \in AllSinks |-> <<>>]]

\* glog has no debug level.
Severity(s, level) == IF s = "glog" /\ level = "debug" THEN "info" ELSE level
\* The sink takes an entry into its buffer.
Take(s, e) == entries' = [entries EXCEPT ![s] = Append(@, [e EXCEPT !.level = Severity(s, e.level)])]

\* fmt.Sprintf("%v", args): defaultFmt hands its slice on as one argument, so the message is in brackets.
defaultFmt(text) == <<"[">> \o text \o <<"]">>

\* The programs add glog, then the cloud logger where there is one.
AddSink(s) ==
    /\ main.pc = "setup" /\ s = IF sinks = <<>> THEN "glog" ELSE "cloud"
    /\ sinks' = Append(sinks, s)
    /\ main' = [main EXCEPT !.pc = IF s = "cloud" THEN "ready" ELSE "setup"]
    /\ UNCHANGED <<writer, entries, out, said, shown>>
\* cloudlog.New is not called on a workstation.
NoCloud ==
    /\ main.pc = "setup" /\ sinks # <<>>
    /\ main' = [main EXCEPT !.pc = "ready"]
    /\ UNCHANGED <<sinks, writer, entries, out, said, shown>>
\* It fails without credentials, a project or a client: the programs return before Shutdown is deferred.
NewFails ==
    /\ main.pc = "setup" /\ sinks # <<>>
    /\ main' = [main EXCEPT !.pc = "fatal", !.at = Len(sinks) + 1]
    /\ UNCHANGED <<sinks, writer, entries, out, said, shown>>

\* Debug, Info, Warning and Error, and Fatal, after which the process ends; the main functions of the
\* builders log the error they end with after Shutdown.
Say(level, fatal) ==
    /\ main.pc \in {"setup", "ready"} \/ (main.pc = "closed" /\ fatal)
    /\ Len(said) < MaxSaid /\ (fatal => level = "error")
    /\ main' = [main EXCEPT !.pc = IF fatal THEN "fatal" ELSE IF @ = "setup" THEN "setup-say" ELSE "ready-say",
                            !.at = 1, !.entry = [from |-> "main", level |-> level, msg |-> defaultFmt(<<"said">>)]]
    /\ said' = Append(said, [entry |-> main'.entry, sinks |-> sinks])
    /\ UNCHANGED <<sinks, writer, entries, out, shown>>
\* The loop over the sinks.
ToSink ==
    /\ main.pc \in {"setup-say", "ready-say", "fatal"} /\ main.at <= Len(sinks)
    /\ Take(sinks[main.at], main.entry)
    /\ main' = [main EXCEPT !.at = @ + 1]
    /\ UNCHANGED <<sinks, writer, out, said, shown>>
Said ==
    /\ main.pc \in {"setup-say", "ready-say"} /\ main.at > Len(sinks)
    /\ main' = [main EXCEPT !.pc = IF @ = "setup-say" THEN "setup" ELSE "ready"]
    /\ UNCHANGED <<sinks, writer, entries, out, said, shown>>
\* os.Exit: nothing that is deferred runs, and the buffers are lost.
Exit ==
    /\ main.pc = "fatal" /\ main.at > Len(sinks)
    /\ main' = [main EXCEPT !.pc = "exited"]
    /\ entries' = [s \in AllSinks |-> SubSeq(entries[s], 1, out[s])]
    /\ UNCHANGED <<sinks, writer, out, said, shown>>

-----------------------------------------------------------------------------
\* The lines of a text that are complete, and not empty without their returns.
Visible(text) == SelectSeq(text, LAMBDA c : c # CR)
CompleteLines(text) ==
    LET ends == <<0>> \o SetToSortSeq({i \in DOMAIN text : text[i] = NL}, LAMBDA i, j : i < j)
        lines == [n \in 1 .. Len(ends) - 1 |-> Visible(SubSeq(text, ends[n] + 1, ends[n + 1] - 1))]
    IN  SelectSeq(lines, LAMBDA l : l # <<>>)

\* cmd.Run with NewInfoLogger(Get()) on either stream: Get copies the sinks of now.
Run(texts) ==
    /\ main.pc = "ready" /\ main.ran < MaxCommands
    /\ main' = [main EXCEPT !.pc = "wait", !.ran = @ + 1]
    /\ writer' = [w \in Writers |-> [NoWriter EXCEPT !.pc = "idle", !.sinks = sinks, !.text = texts[w]]]
    /\ shown' = [w \in Writers |-> [s \in AllSinks |->
                    IF s \in Range(sinks) THEN shown[w][s] \o CompleteLines(texts[w]) ELSE shown[w][s]]]
    /\ UNCHANGED <<sinks, entries, out, said>>

Become(w, new) == writer' = [writer EXCEPT ![w] = new]
\* The loop of Write, which is the goroutine's own work, to the end of a line or of the piece.
Scan(x) ==
    LET end == SelectInSeq(x.chunk, LAMBDA c : c = NL)
        str == x.str \o Visible(IF end = 0 THEN x.chunk ELSE SubSeq(x.chunk, 1, end - 1))
    IN  IF end = 0 THEN [x EXCEPT !.pc = "idle", !.chunk = <<>>, !.str = str]
        ELSE [x EXCEPT !.pc = "line", !.chunk = SubSeq(x.chunk, end + 1, Len(x.chunk)), !.str = str, !.at = 1]
\* infoLogger.Write of the next n characters.
Write(w, n) ==
    LET x == writer[w] IN
    /\ x.pc = "idle" /\ n <= Len(x.text)
    /\ Become(w, Scan([x EXCEPT !.chunk = SubSeq(x.text, 1, n), !.text = SubSeq(x.text, n + 1, Len(x.text))]))
    /\ UNCHANGED <<sinks, main, entries, out, said, shown>>

\* Mutant: the builder is reset only while the piece goes on.
ResetMut(x) == [x EXCEPT !.str = IF x.chunk = <<>> THEN x.str ELSE <<>>]
Reset(x) == [x EXCEPT !.str = <<>>]
\* writeLine: Info on every sink of the copy, one after the other; not for an empty line.
writeLine(w) ==
    LET x == writer[w] IN
    /\ x.pc = "line"
    /\ IF x.str # <<>> /\ x.at <= Len(x.sinks)
       THEN /\ Take(x.sinks[x.at], [from |-> w, level |-> "info", msg |-> defaultFmt(x.str)])
            /\ Become(w, [x EXCEPT !.at = @ + 1])
       ELSE Become(w, Scan(Reset(x))) /\ UNCHANGED entries
    /\ UNCHANGED <<sinks, main, out, said, shown>>

\* cmd.Run returns once both streams are copied.  Nobody closes the infoLoggers.
Wait ==
    /\ main.pc = "wait" /\ \A w \in Writers : writer[w].pc = "idle" /\ writer[w].text = <<>>
    /\ main' = [main EXCEPT !.pc = "ready"]
    /\ writer' = [w \in Writers |-> NoWriter]
    /\ UNCHANGED <<sinks, entries, out, said, shown>>

\* A sink writes its buffer out by itself.
Flush(s) ==
    /\ main.pc \notin {"closed", "exited"} /\ out[s] < Len(entries[s])
    /\ out' = [out EXCEPT ![s] = Len(entries[s])]
    /\ UNCHANGED <<sinks, main, writer, entries, said, shown>>
Closed == Range(sinks)
\* Shutdown and the end of the program.  The error of the cloud client's Close is dropped.
Shutdown(cloudFails) ==
    /\ main.pc = "ready"
    /\ main' = [main EXCEPT !.pc = "closed", !.unclosed = IF cloudFails THEN {"cloud"} ELSE {}]
    /\ out' = [s \in AllSinks |-> IF s \in Closed \ main'.unclosed THEN Len(entries[s]) ELSE out[s]]
    /\ UNCHANGED <<sinks, writer, entries, said, shown>>

Next ==
    \/ \E s \in AllSinks : AddSink(s) \/ Flush(s)
    \/ NoCloud \/ NewFails \/ ToSink \/ Said \/ Exit \/ Wait \/ \E fails \in BOOLEAN : Shutdown(fails)
    \/ \E level \in Levels, fatal \in BOOLEAN : Say(level, fatal)
    \/ \E texts \in [Writers -> Texts] : Run(texts)
    \/ \E w \in Writers : writeLine(w) \/ \E n \in 1 .. Len(writer[w].text) : Write(w, n)

Spec == Init /\ [][Next]_vars

-----------------------------------------------------------------------------
\* What a sink has of a source, and what it should have once nobody is at work.
From(s, source) == SelectSeq(entries[s], LAMBDA e : e.from = source)
DueOfMain(s) ==
    LET mine == SelectSeq(said, LAMBDA x : s \in Range(x.sinks))
    IN  [i \in DOMAIN mine |-> [mine[i].entry EXCEPT !.level = Severity(s, @)]]
DueOfWriter(s, w) == [i \in DOMAIN shown[w][s] |-> [from |-> w, level |-> "info", msg |-> defaultFmt(shown[w][s][i])]]

(* Every sink gets the messages of the program and the complete lines of each stream of a command,
   once, in order and never mixed although the streams arrive in pieces and side by side; a program
   that is shut down has written them all out, unless Close failed, and one that ends by Fatal or
   os.Exit has lost only the last ones. *)
LogComplete ==
    \A s \in AllSinks :
        /\ IsPrefix(From(s, "main"), DueOfMain(s))
        /\ \A w \in Writers : IsPrefix(From(s, w), DueOfWriter(s, w))
        /\ main.pc \in {"ready", "closed"} =>
              From(s, "main") = DueOfMain(s) /\ \A w \in Writers : From(s, w) = DueOfWriter(s, w)
        /\ main.pc = "closed" /\ s \notin main.unclosed => out[s] = Len(entries[s])
=============================================================================
