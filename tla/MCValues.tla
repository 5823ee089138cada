------------------------------ MODULE MCValues ------------------------------
(***************************************************************************)
(* Texts and Settings on all small inputs: a behaviour is one evaluation,  *)
(* its inputs and its result are the state.                                *)
(***************************************************************************)
EXTENDS Texts, Settings, TLC

CONSTANTS
    MaxText,   \* length of the texts, at most
    MaxLine    \* line numbers given, at most; 0 is none

Chars == {"x", "y", NL, CR}

\* The pages of ViewFile, without its errors.
Pages == [total : Nat, start : Nat, end : Nat, lines : Seq(Seq(Chars)), truncated : BOOLEAN]

ASSUME BoundsAssumption == MaxText \in Nat /\ MaxLine \in Nat

\* An error is no text and no page.
ASSUME OutcomesAssumption ==
    /\ Refused \notin Seq(Chars) /\ Panic \notin Seq(Chars)
    /\ Refused \notin Pages

VARIABLES
    kind,   \* what is evaluated
    text,   \* of which text, if any
    call    \* the other inputs and the result, or NotYet

vars == <<kind, text, call>>

NotYet == [done |-> FALSE]

Over(chars, n) == UNION {[1 .. m -> chars] : m \in 0 .. n}
Small          == Over({"x", NL}, MaxText)
Lines          == 0 .. MaxLine

Init ==
    /\ call = NotYet
    /\ \/ kind \in {"change", "tail"} /\ text \in Small
       \/ kind = "view" /\ text \in Small \cup Over({"x", NL, CR}, 3)
       \/ kind \in {"command", "connect", "boot"} /\ text = <<>>

Evaluates(k) == kind = k /\ call = NotYet /\ UNCHANGED <<kind, text>>

View ==
    /\ Evaluates("view")
    /\ \E s, e \in Lines, m \in {10, 12, 22, 25, 40} :
          call' = [done |-> TRUE, first |-> s, max |-> m, page |-> ViewFile(text, s, e, m)]

Change ==
    /\ Evaluates("change")
    /\ \E old \in Over({"x", NL}, 2) \ {<<>>}, new \in {<<>>, <<"y">>, <<"y", NL>>},
          s, e \in Lines, multiple \in BOOLEAN :
          call' = [done |-> TRUE, first |-> s, last |-> e,
                   result |-> ReplaceContent(text, old, new, s, e, multiple)]

TailOf ==
    /\ Evaluates("tail")
    /\ \E n \in Lines : call' = [done |-> TRUE, n |-> n, tail |-> Tail50(text, n)]

\* A directory's name neither begins nor ends with a space.
Dirs == {d \in Over({"x", SP, Cwd}, 3) \ {<<>>} : Head(d) # SP /\ Last(d) # SP}

Command ==
    /\ Evaluates("command")
    /\ \E out \in Over({"x", NL, Exit, Cwd, "1"}, 3), code \in Digits, dir \in Dirs :
          call' = [done |-> TRUE, out |-> out, code |-> code, dir |-> dir,
                   parsed |-> ParseCommandMarkers(Wrapped(out, code, dir))]

Hosts == {"alias", "machine"}

Block(h) == [HostName : IF h = "alias" THEN {"", "machine"} ELSE {""},
             User : {"", h}, Port : {"", h}, IdentityFile : {"", h}]

Files == {"alias" :> a @@ "machine" :> m : a \in Block("alias"), m \in Block("machine")}
Envs  == [USER : {"", "env"}, agent : {"", "env"}, key : {"", "default"}]

Given == {"User", "port", "Port", "KeyPath", "password"}

Connect ==
    /\ Evaluates("connect")
    /\ \E file \in Files, env \in Envs, h \in Hosts, given \in SUBSET Given :
          call' = [done |-> TRUE, file |-> file, host |-> h, given |-> given,
                   cfg |-> RemoteConnect([n \in {"host"} \cup given |->
                                             IF n = "host" THEN h ELSE "given"], file, env)]

\* What the README documents of a boot: variables, and flags with short names.
BootEnvs == [USER : {"env"}, agent : {"", "env"}, key : {"default"}, SSH_HOST : {"", "machine"},
             SSH_USER : {"", "env"}, SSH_KEY : {"", "env"}, SSH_PORT : {"", "env"},
             SSH_PASSWORD : {""}]

FlagNames == {{}, {"host"}, {"H"}, {"u"}, {"p"}, {"i"}, {"host", "user"}, {"host", "user", "port"},
              {"user"}, {"port"}, {"key"}, {"host", "port", "key"}}

BootUp ==
    /\ Evaluates("boot")
    /\ \E file \in Files, env \in BootEnvs, h \in Hosts, names \in FlagNames :
          LET flags == [n \in names |-> IF n \in {"host", "H"} THEN h ELSE "given"]
          IN  call' = [done |-> TRUE, flags |-> flags, env |-> env,
                       cfg |-> Boot(flags, [host |-> "alias", user |-> "argument"], file, env)]

Next == View \/ Change \/ TailOf \/ Command \/ Connect \/ BootUp

Spec == Init /\ [][Next]_vars

-----------------------------------------------------------------------------
(* Properties *)

Done(k) == kind = k /\ call.done

\* The lines read page by page, each page beginning after the end of the last.
Paged(t, m) ==
    LET from[s \in Nat] ==
            LET page == ViewFile(t, s, 0, m)
            IN  IF page = Refused THEN <<>>
                ELSE IF page.truncated /\ page.end >= s
                THEN page.lines \o from[page.end + 1]
                ELSE page.lines
    IN  from[1]

\* Reading on from end_line + 1 while is_truncated shows every line of the
\* file once, in order, unless one line alone is longer than maxBytes.
PagesCoverFile ==
    (Done("view") /\ call.first = 1 /\ \A l \in Range(ScanLines(text)) : LineSize(l) <= call.max)
    => Paged(text, call.max) = ScanLines(text)

\* The lines that remote_view_file numbers are those that
\* remote_replace_file_content counts: what a page shows is found in its range
\* (unless the file has carriage returns, which the page does not show).
ViewedIsFound ==
    (Done("view") /\ CR \notin Range(text) /\ call.page # Refused) =>
        LET shown == Join(call.page.lines)
        IN  shown # <<>> => ReplaceContent(text, shown, <<"y">>, call.page.start,
                                           call.page.end, TRUE) \notin {Refused, Panic}

\* A replacement in a range of lines leaves the lines before and after it as
\* they are, unless the only line before the range is empty (its line feed is
\* lost then, sftp.go:161).
OutsideIsKept ==
    (Done("change") /\ call.first + call.last > 0 /\ call.result \notin {Refused, Panic}) =>
        LET old    == Split(text)
            new    == Split(call.result)
            before == StartOf(call.first) - 1
            after  == Len(old) - EndOf(call.last, Len(old))
        IN  SubSeq(old, 1, before) = << <<>> >> \/
            /\ Len(new) >= before + after
            /\ SubSeq(new, 1, before) = SubSeq(old, 1, before)
            /\ SubSeq(new, Len(new) - after + 1, Len(new)) = SubSeq(old, Len(old) - after + 1, Len(old))

\* The tail of a task's output is its last lines, whole ones and as many as
\* asked for, whether or not the last of them is finished.
TailIsTheEnd ==
    (Done("tail") /\ call.n > 0) =>
        LET all   == Split(TrimRight(text, NL))
            lines == Split(TrimRight(call.tail, NL))
        IN  /\ Len(lines) = Min({call.n, Len(all)})
            /\ IsSuffix(lines, all)

\* Output, status and directory of a command come back as they were, also when
\* the command printed the markers itself.
MarkersRoundTrip ==
    Done("command") => call.parsed = <<call.out, call.dir, call.code>>

\* A setting given by a long flag or its variable, or by an argument under any
\* of its names, is used, whatever ~/.ssh/config and $USER say.
GivenIsUsed ==
    /\ Done("connect") =>
          /\ "User" \in call.given => call.cfg.user = "given"
          /\ {"port", "Port"} \cap call.given # {} => call.cfg.port = "given"
          /\ "KeyPath" \in call.given => call.cfg.key = "given"
          /\ "password" \in call.given => call.cfg.password = "given"
    /\ (Done("boot") /\ DOMAIN call.flags \subseteq LongFlags) =>
          LET user == Flag(call.flags, "user", call.env.SSH_USER)
              port == Flag(call.flags, "port", "")
              key  == Flag(call.flags, "key", call.env.SSH_KEY)
          IN  /\ user # "" => call.cfg.user = user
              /\ port # "" => call.cfg.port = port
              /\ key # "" => call.cfg.key = key

\* What the README says of settings: remote_connect resolves the port of an
\* alias from ~/.ssh/config (README.md:172), a boot without a port uses
\* SSH_PORT, and the short names are flags (README.md:320-325).
DocumentedIsUsed ==
    /\ (Done("connect") /\ {"port", "Port"} \cap call.given = {}) =>
          LET port == call.file[call.host].Port IN port # "" => call.cfg.port = port
    /\ Done("boot") =>
          /\ call.cfg # Usage
          /\ ("port" \notin DOMAIN call.flags /\ call.env.SSH_PORT # "")
                => call.cfg.port = call.env.SSH_PORT
=============================================================================
