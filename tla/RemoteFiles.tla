---------------------------- MODULE RemoteFiles ----------------------------
(***************************************************************************)
(* The file methods of sshclient.Client at work on one remote path:        *)
(* ReplaceFileContent, WriteFile, UploadFile, and ViewFile/DownloadFile,   *)
(* as the SFTP requests they send.  A step is one request; the server      *)
(* carries requests of several calls out in any order.  A request may be   *)
(* refused, and the connection may be lost before it, after it, or between *)
(* its execution and its reply.                                            *)
(***************************************************************************)
EXTENDS Naturals

CONSTANTS
    Calls,      \* tool calls (each is made at most once)
    Works,      \* what they may be: "replace", "write", "upload", "read"
    MaxDrops,   \* how often the connection is lost, at most
    Orig,       \* the file that may be there in the beginning
    None

Kinds   == {"replace", "write", "upload", "read"}

\* The files calls make: a temporary one, one under the path itself.
Temp(w) == <<w, "temp">>
File(w) == <<w, "file">>

Inodes  == {Orig} \cup {Temp(w) : w \in Calls} \cup {File(w) : w \in Calls}

ASSUME FilesAssumption ==
    /\ Works \subseteq Kinds
    /\ MaxDrops \in Nat
    /\ None \notin Calls \cup Inodes
    /\ \A w \in Calls : Orig \notin {Temp(w), File(w)}

VARIABLES
    path,      \* the file the path names
    temps,     \* calls whose temporary name (path.tmp.<nanoseconds>) exists
    data,      \* content of each file
    gen,       \* connections lost so far
    pc,        \* next request of each call; "ok" and "error" when it is over
    kind,      \* the method it calls
    over,      \* its overwrite flag
    cli,       \* connection the call's SFTP client belongs to
    text,      \* the text it has read, then the one it is to write
    handle,    \* the file it has open, for reading or in place of the path
    past       \* history: two changing calls were in progress at one time
               \* ("overlap"), a replacement has fallen back ("fallback"), a
               \* Stat was refused although the file was there ("blind")

server == <<path, temps, data>>
call   == <<kind, over, cli>>
vars   == <<server, gen, pc, call, text, handle, past>>

\* A content: the calls whose text or edit is in it; whether it is complete;
\* who opened the file for writing last.
Content == [has: SUBSET Calls, whole: BOOLEAN, by: Calls \cup {None}]

Fresh       == [has |-> {}, whole |-> TRUE, by |-> None]
Part(x)     == [x EXCEPT !.whole = FALSE]
Text(w, x)  == [x EXCEPT !.has = @ \cup {w}, !.by = w]

\* Mutants of OnError: the fallback removes the temporary file also when it
\* fails; the error of the rename is ignored.
OnErrorTidy ==
    [open |-> "error", read |-> "error", create |-> "error",
     write |-> "cleanup", cleanup |-> "error", remove |-> "rename",
     rename |-> "openfile", openfile |-> "error", rewrite |-> "cleanup",
     tidy |-> "ok", mkdir |-> "error"]

OnErrorIgnored ==
    [open |-> "error", read |-> "error", create |-> "error",
     write |-> "cleanup", cleanup |-> "error", remove |-> "rename",
     rename |-> "ok", openfile |-> "error", rewrite |-> "error",
     tidy |-> "ok", mkdir |-> "error"]

\* What a call does next when a request fails.
OnError ==
    [open |-> "error", read |-> "error", create |-> "error",
     write |-> "cleanup", cleanup |-> "error", remove |-> "rename",
     rename |-> "openfile", openfile |-> "error", rewrite |-> "error",
     tidy |-> "ok", mkdir |-> "error"]

Over      == {"ok", "error"}
PCs       == DOMAIN OnError \cup Over \cup {"idle", "stat"}
Active(w) == kind[w] # "read" /\ pc[w] \notin Over \cup {"idle"}

TypeOK ==
    /\ path \in Inodes \cup {None}
    /\ temps \subseteq Calls
    /\ data \in [Inodes -> Content]
    /\ gen \in 0..MaxDrops
    /\ pc \in [Calls -> PCs]
    /\ kind \in [Calls -> Kinds]
    /\ over \in [Calls -> BOOLEAN]
    /\ cli \in [Calls -> 0..MaxDrops]
    /\ text \in [Calls -> Content]
    /\ handle \in [Calls -> Inodes \cup {None}]
    /\ past \subseteq {"overlap", "fallback", "blind"}

Init ==
    /\ path \in {Orig, None}
    /\ temps = {}
    /\ data = [i \in Inodes |-> Fresh]
    /\ gen = 0
    /\ pc = [w \in Calls |-> "idle"]
    /\ kind = [w \in Calls |-> "read"]
    /\ over = [w \in Calls |-> TRUE]
    /\ cli = [w \in Calls |-> 0]
    /\ text = [w \in Calls |-> Fresh]
    /\ handle = [w \in Calls |-> None]
    /\ past = {}

-----------------------------------------------------------------------------
(* Requests *)

Goto(w, l) == pc' = [pc EXCEPT ![w] = l]

Loses == gen < MaxDrops /\ gen' = gen + 1

\* The call's client is on the present connection.
Served(w) == cli[w] = gen

\* A request at l is executed; if its reply is lost the call sees an error.
Request(w, l, next) ==
    /\ pc[w] = l
    /\ Served(w)
    /\ \/ Goto(w, next) /\ UNCHANGED gen
       \/ Goto(w, OnError[l]) /\ Loses

\* It is not executed: no permission, no space, nothing under that name,
\* something under that name, or the connection is lost.
Fails(w) ==
    /\ pc[w] \in DOMAIN OnError
    /\ Goto(w, OnError[pc[w]])
    /\ UNCHANGED <<server, gen, call, text, handle, past>>

LinkLost ==
    /\ Loses
    /\ UNCHANGED <<server, pc, call, text, handle, past>>

-----------------------------------------------------------------------------
(* The methods *)

\* A handler calls its method, and the method SFTP().
Enter(w, k, o, first) ==
    /\ pc[w] = "idle"
    /\ k \in Works
    /\ kind' = [kind EXCEPT ![w] = k]
    /\ over' = [over EXCEPT ![w] = o]
    /\ cli' = [cli EXCEPT ![w] = gen]
    /\ text' = [text EXCEPT ![w] = Text(w, Fresh)]
    /\ Goto(w, first)
    /\ past' = past \cup {x \in {"overlap"} : k # "read" /\ \E v \in Calls : Active(v)}
    /\ UNCHANGED <<server, gen, handle>>

InvokeReplace(w) == Enter(w, "replace", TRUE, "open")

\* remote_write_file, whose overwrite is off unless it is given.
InvokeWrite(w, o) == Enter(w, "write", o, IF o THEN "mkdir" ELSE "stat")

\* remote_upload_file, whose overwrite is on unless it is given.  It fails when
\* there is no local file.
InvokeUpload(w, o) == Enter(w, "upload", o, "mkdir")

InvokeView(w) == Enter(w, "read", TRUE, "open")

\* remote_download_file reads as a view does; the local side is left out.
InvokeDownload(w) == InvokeView(w)

Open(w) ==
    /\ Request(w, "open", "read")
    /\ path # None
    /\ handle' = [handle EXCEPT ![w] = path]
    /\ text' = [text EXCEPT ![w] = data[path]]
    /\ UNCHANGED <<server, call, past>>

\* The content of the open file, torn if it has changed since it was opened.
Reads(w) ==
    LET now == data[handle[w]]
    IN  IF now = text[w] THEN {now} ELSE {now, Part(now)}

\* ViewFile and DownloadFile are done with the remote side.
ReadAll(w) ==
    /\ kind[w] = "read"
    /\ Request(w, "read", "ok")
    /\ \E x \in Reads(w) : text' = [text EXCEPT ![w] = x]
    /\ UNCHANGED <<server, call, handle, past>>

\* The target is found, and the new text made; or it is not (Fails).
MakeText(w) ==
    /\ kind[w] = "replace"
    /\ Request(w, "read", "create")
    /\ \E x \in Reads(w) : text' = [text EXCEPT ![w] = Text(w, x)]
    /\ UNCHANGED <<server, call, handle, past>>

\* Mutant of Create: the file itself is opened instead of a temporary one.
CreateInPlace(w) ==
    /\ Request(w, "create", "write")
    /\ path # None
    /\ data' = [data EXCEPT ![path] = Part(text[w])]
    /\ temps' = temps \cup {w}
    /\ UNCHANGED <<path, call, text, handle, past>>

Create(w) ==
    /\ Request(w, "create", "write")
    /\ data' = [data EXCEPT ![Temp(w)] = Part(text[w])]
    /\ temps' = temps \cup {w}
    /\ UNCHANGED <<path, call, text, handle, past>>

\* Mutant of WriteTemp: a short write is not noticed.
WriteTempShort(w) ==
    /\ Request(w, "write", "remove")
    /\ data' = [data EXCEPT ![Temp(w)] = Part(text[w])]
    /\ UNCHANGED <<path, temps, call, text, handle, past>>

WriteTemp(w) ==
    /\ Request(w, "write", "remove")
    /\ data' = [data EXCEPT ![Temp(w)] = text[w]]
    /\ UNCHANGED <<path, temps, call, text, handle, past>>

\* The error is ignored: there may be no file any more.
Remove(w) ==
    /\ Request(w, "remove", "rename")
    /\ path' = None
    /\ UNCHANGED <<temps, data, call, text, handle, past>>

\* An SFTP rename fails when the new name exists.
Rename(w) ==
    /\ Request(w, "rename", "ok")
    /\ path = None
    /\ path' = Temp(w)
    /\ temps' = temps \ {w}
    /\ UNCHANGED <<data, call, text, handle, past>>

RemoveTemp(w) ==
    /\ Request(w, "cleanup", "error") \/ Request(w, "tidy", "ok")
    /\ temps' = temps \ {w}
    /\ UNCHANGED <<path, data, call, text, handle, past>>

\* WriteFile without overwrite: any error of Stat counts as "no such file", the
\* answer that there is none, a refused request, or a lost connection.
Stat(w) ==
    /\ pc[w] = "stat"
    /\ \/ Served(w) /\ path # None /\ Goto(w, "error") /\ UNCHANGED <<gen, past>>
       \/ /\ Goto(w, "mkdir")
          /\ past' = past \cup {x \in {"blind"} : Served(w) /\ path # None}
          /\ UNCHANGED gen
       \/ Goto(w, "mkdir") /\ Loses /\ UNCHANGED past
    /\ UNCHANGED <<server, call, text, handle>>

\* Mutant of MkdirAll: the method goes on with mkdirAll's client.
MkdirAllRefreshes(w) ==
    /\ pc[w] = "mkdir"
    /\ Goto(w, "openfile")
    /\ cli' = [cli EXCEPT ![w] = gen]
    /\ UNCHANGED <<server, gen, kind, over, text, handle, past>>

\* mkdirAll takes an SFTP client of its own: after a reconnect, a newer one.
\* What it makes above the path is left out; it succeeds, or it Fails.
MkdirAll(w) ==
    /\ pc[w] = "mkdir"
    /\ Goto(w, "openfile")
    /\ UNCHANGED <<server, gen, call, text, handle, past>>

Exclusive(w) == kind[w] = "upload" /\ ~ over[w]

\* OpenFile(O_CREATE | O_TRUNC), or O_EXCL for an upload without overwrite.
OpenFile(w) ==
    /\ Request(w, "openfile", "rewrite")
    /\ Exclusive(w) => path = None
    /\ LET i == IF path = None THEN File(w) ELSE path
       IN  /\ path' = i
           /\ handle' = [handle EXCEPT ![w] = i]
           /\ data' = [data EXCEPT ![i] = Part(text[w])]
    /\ past' = past \cup {x \in {"fallback"} : kind[w] = "replace"}
    /\ UNCHANGED <<temps, call, text>>

\* Two calls write the same file: their pieces may mix.
Mixed(w) ==
    \/ data[handle[w]].by # w
    \/ \E v \in Calls \ {w} : pc[v] = "rewrite" /\ handle[v] = handle[w]

Rewrite(w) ==
    /\ Request(w, "rewrite", IF kind[w] = "replace" THEN "tidy" ELSE "ok")
    /\ \E x \in {text[w]} \cup IF Mixed(w) THEN {Part(text[w])} ELSE {} :
          data' = [data EXCEPT ![handle[w]] = x]
    /\ UNCHANGED <<path, temps, call, text, handle, past>>

-----------------------------------------------------------------------------
(* The specification *)

Step(w) ==
    \/ InvokeReplace(w)
    \/ \E o \in BOOLEAN : InvokeWrite(w, o) \/ InvokeUpload(w, o)
    \/ InvokeView(w)
    \/ InvokeDownload(w)
    \/ Fails(w)
    \/ Open(w)
    \/ ReadAll(w)
    \/ MakeText(w)
    \/ Create(w)
    \/ WriteTemp(w)
    \/ Remove(w)
    \/ Rename(w)
    \/ RemoveTemp(w)
    \/ Stat(w)
    \/ MkdirAll(w)
    \/ OpenFile(w)
    \/ Rewrite(w)

Next == LinkLost \/ \E w \in Calls : Step(w)

Spec == Init /\ [][Next]_vars

-----------------------------------------------------------------------------
(* Properties *)

\* Nothing but replacements and reads so far, the replacements one by one.
OnlyReplacements ==
    "overlap" \notin past /\ \A w \in Calls : kind[w] \in {"replace", "read"}

Replaced == {w \in Calls : kind[w] = "replace" /\ pc[w] = "ok"}

\* Files with a name, and the name is the path or a temporary one.
Named == {i \in Inodes : i = path \/ \E w \in temps : i = Temp(w)}

\* Replacements that do not overlap never lose the text of the file: whatever
\* request failed, and whether or not the connection or the server is still
\* there, a complete version is under the file's own name or that of a temporary
\* file; one with all replacements reported successful, if none fell back.
TextSurvives ==
    (OnlyReplacements /\ \E w \in Calls : handle[w] # None) =>
        \E i \in Named :
            data[i].whole /\ ("fallback" \notin past => Replaced \subseteq data[i].has)

\* A replacement that reports success has put its text in place: by its rename
\* or by the fallback (unless another call was at work on the file).
ReplaceTakesEffect ==
    [][\A w \in Calls :
          (/\ kind[w] = "replace" /\ pc[w] # "ok" /\ pc'[w] = "ok"
           /\ "overlap" \notin past)
          => (path' # None /\ data'[path'] = text[w])]_vars

\* Without overwrite no file is overwritten, however often the connection is lost:
\* the file opened is one of the call's own making; or, for WriteFile, one another
\* call made since its Stat, or one its Stat was refused for.
NoOverwrite ==
    \A w \in Calls :
        (/\ ~ over[w] /\ kind[w] \in {"write", "upload"}
         /\ handle[w] \notin {None, File(w)})
        => (kind[w] = "write" /\ ("overlap" \in past \/ "blind" \in past))

\* A view or download next to replacements, one or several at a time, returns
\* a complete version, unless one of them fell back to rewriting the file.
ReadsAreWhole ==
    \A w \in Calls :
        (/\ kind[w] = "read" /\ pc[w] = "ok" /\ "fallback" \notin past
         /\ \A v \in Calls : kind[v] \in {"replace", "read"})
        => text[w].whole

\* At every moment the path names a complete text, the old or the new one.
ReplaceIsAtomic ==
    (OnlyReplacements /\ \E w \in Calls : handle[w] # None) =>
        path # None /\ data[path].whole

-----------------------------------------------------------------------------
(* The inductive invariant behind the properties, in parts *)

\* Which method makes a request, and what the call has by then.
InMethod ==
    \A w \in Calls :
        /\ cli[w] <= gen
        /\ pc[w] = "idle" => kind[w] = "read" /\ handle[w] = None
        /\ pc[w] \in {"open", "read"} => kind[w] \in {"replace", "read"}
        /\ pc[w] \in {"create", "write", "cleanup", "remove", "rename", "tidy"} =>
              kind[w] = "replace"
        /\ pc[w] \in {"stat", "mkdir"} => kind[w] \in {"write", "upload"}
        /\ pc[w] \in {"openfile", "rewrite"} => kind[w] # "read"
        /\ pc[w] \in {"read", "rewrite"} => handle[w] # None
        /\ Active(w) /\ kind[w] = "replace" /\ pc[w] # "read" =>
              w \in text[w].has /\ text[w].by = w

\* A replacement's temporary file is there from its creation, and holds the new
\* text from its write, until it is renamed or removed.  Once it has been
\* renamed its call touches no file again.
TempsInOrder ==
    \A w \in Calls :
        /\ kind[w] = "replace" /\ pc[w] = "write" => w \in temps
        /\ (/\ kind[w] = "replace"
            /\ \/ pc[w] \in {"remove", "rename", "rewrite"}
               \/ pc[w] = "openfile" /\ Served(w))
           => (w \in temps /\ data[Temp(w)] = text[w])
        /\ (path = Temp(w) \/ \E v \in Calls : handle[v] = Temp(w)) =>
              /\ w \notin temps
              /\ \/ pc[w] = "openfile" /\ ~ Served(w)
                 \/ pc[w] \in Over

OneAtATime ==
    "overlap" \notin past =>
        \A v, w \in Calls : Active(v) /\ Active(w) => v = w

\* What a call found or wrote is still so while it is the only one at work.
Undisturbed ==
    "overlap" \notin past => \A w \in Calls :
        /\ kind[w] = "replace" /\ pc[w] = "read" =>
              handle[w] = path /\ data[path] = text[w]
        /\ kind[w] = "replace" /\ pc[w] = "openfile" /\ w \notin temps =>
              path # None /\ data[path] = text[w]
        /\ kind[w] = "replace" /\ pc[w] = "rewrite" =>
              handle[w] = path /\ data[path] = Part(text[w])
        /\ pc[w] = "tidy" => path # None /\ data[path] = text[w]
        /\ (/\ kind[w] = "write" /\ ~ over[w] /\ Served(w)
            /\ pc[w] \in {"mkdir", "openfile"} /\ "blind" \notin past)
           => path = None

InPlace == path # None /\ data[path].whole

\* A complete text that the replacement in progress leaves alone: another one's
\* temporary file.
Kept(w) ==
    \E v \in temps \ {w} : pc[v] = "error" /\ data[Temp(v)].whole

\* A complete text is somewhere; and in a place from which the replacement in
\* progress cannot remove it before it has put its own under a name.
VersionKept ==
    OnlyReplacements =>
        /\ \A w \in Calls : Active(w) =>
              /\ pc[w] # "open" => text[w].whole \/ Kept(w)
              /\ pc[w] \in {"read", "create", "write", "cleanup", "remove"} =>
                    InPlace \/ Kept(w)
        /\ (path # None \/ \E w \in Calls : handle[w] # None) =>
              \/ InPlace
              \/ \E v \in temps :
                    /\ data[Temp(v)].whole
                    /\ pc[v] \in {"remove", "rename", "openfile", "rewrite", "error"}

\* Without a fallback a file that has been under the path never changes, and
\* none comes there before it is complete.
Steady ==
    ("fallback" \notin past /\ \A v \in Calls : kind[v] \in {"replace", "read"}) =>
        /\ \A w \in Calls :
              /\ text[w].whole
              /\ pc[w] \notin {"rewrite", "tidy"}
              /\ handle[w] # None => data[handle[w]].whole
              /\ pc[w] = "read" => data[handle[w]] = text[w]
        /\ path # None => InPlace

\* Without a fallback, and one at a time, every replacement reported successful
\* is in the file, in the text that is to replace it, and in the one left over
\* when the file is gone.
AllSaved ==
    (OnlyReplacements /\ "fallback" \notin past) =>
        /\ path # None => Replaced \subseteq data[path].has
        /\ \A w \in Calls : Active(w) =>
              /\ pc[w] \notin {"open", "read"} => Replaced \subseteq text[w].has
              /\ pc[w] \in {"read", "create", "write", "cleanup", "remove"} => path # None
        /\ (path = None /\ \E w \in Calls : handle[w] # None) =>
              \E v \in temps :
                 /\ data[Temp(v)].whole /\ Replaced \subseteq data[Temp(v)].has
                 /\ pc[v] \in {"rename", "openfile", "error"}

IInv ==
    /\ TypeOK
    /\ InMethod
    /\ TempsInOrder
    /\ OneAtATime
    /\ Undisturbed
    /\ VersionKept
    /\ Steady
    /\ AllSaved
=============================================================================
