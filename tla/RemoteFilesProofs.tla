------------------------- MODULE RemoteFilesProofs -------------------------
(***************************************************************************)
(* Proofs about RemoteFiles for any set of calls and any number of lost    *)
(* connections.  IInv, the inductive invariant, is defined in RemoteFiles  *)
(* and checked by the run files.                                           *)
(***************************************************************************)
EXTENDS RemoteFiles, TLAPS

(* Facts about the operators *)

\* The text nobody has edited.
LEMMA FreshFacts ==
  Fresh \in Content /\ Fresh.has = {} /\ Fresh.whole /\ Fresh.by = None
  BY DEF Content, Fresh

\* What a partial write and an edit make of a content.
LEMMA ContentFacts ==
  ASSUME NEW x \in Content, NEW w \in Calls
  PROVE  /\ Part(x) \in Content /\ ~ Part(x).whole
         /\ Part(x).has = x.has /\ Part(x).by = x.by
         /\ Text(w, x) \in Content /\ Text(w, x).whole = x.whole
         /\ Text(w, x).has = x.has \cup {w} /\ Text(w, x).by = w
         /\ x.whole \in BOOLEAN
  BY DEF Content, Part, Text

\* The files of different calls are different.
LEMMA InodeFacts ==
  /\ Orig \in Inodes /\ None \notin Inodes /\ None \notin Calls
  /\ \A w \in Calls : /\ Temp(w) \in Inodes /\ File(w) \in Inodes
                      /\ Temp(w) # Orig /\ Temp(w) # None /\ File(w) # None
  /\ \A v, w \in Calls : (Temp(v) = Temp(w) => v = w) /\ Temp(v) # File(w)
  BY FilesAssumption DEF Inodes, Temp, File

\* The error paths, one by one.
LEMMA OnErrorFacts ==
  /\ OnError["open"] = "error" /\ OnError["read"] = "error"
  /\ OnError["create"] = "error" /\ OnError["write"] = "cleanup"
  /\ OnError["cleanup"] = "error" /\ OnError["remove"] = "rename"
  /\ OnError["rename"] = "openfile" /\ OnError["openfile"] = "error"
  /\ OnError["rewrite"] = "error" /\ OnError["tidy"] = "ok"
  /\ OnError["mkdir"] = "error"
  /\ DOMAIN OnError = {"open", "read", "create", "write", "cleanup", "remove",
                       "rename", "openfile", "rewrite", "tidy", "mkdir"}
  BY DEF OnError

\* The requests a call can be at.
LEMMA PCsFacts ==
  PCs = {"open", "read", "create", "write", "cleanup", "remove", "rename", "openfile",
         "rewrite", "tidy", "mkdir", "ok", "error", "idle", "stat"}
  BY OnErrorFacts DEF PCs, Over

\* Before any call, whether the file is there or not.
LEMMA InitIInv == Init => IInv
  <1> SUFFICES ASSUME Init PROVE IInv
    OBVIOUS
  <1> USE FilesAssumption, InodeFacts, FreshFacts DEF Init
  <1>1. TypeOK
    BY DEF TypeOK, Kinds, PCs
  <1>2. InMethod /\ TempsInOrder /\ OneAtATime /\ Undisturbed
    BY DEF InMethod, TempsInOrder, OneAtATime, Undisturbed, Active
  <1>3. VersionKept /\ Steady /\ AllSaved
    BY DEF VersionKept, Steady, AllSaved, Active, InPlace, Replaced
  <1>4. QED
    BY <1>1, <1>2, <1>3 DEF IInv

-----------------------------------------------------------------------------
(* Every action keeps the parts of IInv it can disturb *)

\* The handlers' calls.
LEMMA EnterKeepsIInv ==
  ASSUME IInv, NEW w \in Calls, NEW k, NEW o \in BOOLEAN, NEW l, Enter(w, k, o, l),
         \/ k \in {"replace", "read"} /\ l = "open"
         \/ k = "write" /\ l = (IF o THEN "mkdir" ELSE "stat")
         \/ k = "upload" /\ l = "mkdir"
  PROVE  IInv'
  <1> DEFINE x == Text(w, Fresh)
  <1>0. x \in Content /\ x.has = {w} /\ x.by = w /\ x.whole
    BY FreshFacts, ContentFacts
  <1> HIDE DEF x
  <1>a. text' = [text EXCEPT ![w] = x]
    BY DEF Enter, x
  <1> USE <1>a, InodeFacts DEF IInv, Enter, Goto, server, Active
  <1>1. TypeOK'
    <2>1. l \in PCs /\ k \in Kinds
      BY PCsFacts, FilesAssumption
    <2>2. past' \subseteq {"overlap", "fallback", "blind"}
      BY DEF TypeOK
    <2>3. QED
      BY <1>0, <2>1, <2>2 DEF TypeOK
  <1>2. InMethod'
    BY <1>0 DEF InMethod, TypeOK, Over
  <1>3. TempsInOrder'
    BY DEF TempsInOrder, InMethod, TypeOK, Served, Over
  <1>4. OneAtATime'
    BY DEF OneAtATime, InMethod, TypeOK
  <1>5. Undisturbed'
    BY DEF Undisturbed, InMethod, TypeOK, Served
  <1>6. VersionKept'
    BY DEF VersionKept, OnlyReplacements, InMethod, TypeOK, Kept, InPlace
  <1>7. Steady'
    BY <1>0 DEF Steady, InMethod, TypeOK, InPlace
  <1>8. AllSaved'
    BY DEF AllSaved, OnlyReplacements, Replaced, InMethod, TypeOK
  <1>9. QED
    BY <1>1, <1>2, <1>3, <1>4, <1>5, <1>6, <1>7, <1>8 DEF IInv

\* A refused request: the call goes down its error path.
LEMMA FailsKeepsIInv ==
  ASSUME IInv, NEW w \in Calls, Fails(w)
  PROVE  IInv'
  <1> USE DEF IInv, Fails, Goto, server, call, Active
  <1>1. \/ pc[w] \in {"open", "read", "create", "cleanup", "openfile", "rewrite", "mkdir"}
           /\ pc' = [pc EXCEPT ![w] = "error"]
        \/ pc[w] = "write" /\ pc' = [pc EXCEPT ![w] = "cleanup"]
        \/ pc[w] = "remove" /\ pc' = [pc EXCEPT ![w] = "rename"]
        \/ pc[w] = "rename" /\ pc' = [pc EXCEPT ![w] = "openfile"]
        \/ pc[w] = "tidy" /\ pc' = [pc EXCEPT ![w] = "ok"]
    BY OnErrorFacts
  <1>2. TypeOK'
    BY <1>1, PCsFacts DEF TypeOK
  <1>3. InMethod'
    BY <1>1 DEF InMethod, TypeOK, Over
  <1>4. TempsInOrder'
    BY <1>1 DEF TempsInOrder, InMethod, TypeOK, Served, Over
  <1>5. OneAtATime'
    BY <1>1 DEF OneAtATime, InMethod, TypeOK, Over
  <1>6. Undisturbed'
    BY <1>1 DEF Undisturbed, TempsInOrder, InMethod, TypeOK, Served, Over
  <1>7. VersionKept'
    BY <1>1 DEF VersionKept, Undisturbed, OnlyReplacements, TempsInOrder, OneAtATime, InMethod, TypeOK, Kept, InPlace, Over
  <1>8. Steady'
    BY <1>1 DEF Steady, InMethod, TypeOK, InPlace
  <1>9. AllSaved'
    BY <1>1 DEF AllSaved, OnlyReplacements, Replaced, InMethod, TypeOK, Steady, Over
  <1>10. QED
    BY <1>2, <1>3, <1>4, <1>5, <1>6, <1>7, <1>8, <1>9 DEF IInv

\* The file is open and the text noted as it is now.
LEMMA OpenKeepsIInv ==
  ASSUME IInv, NEW w \in Calls, Open(w)
  PROVE  IInv'
  <1> USE InodeFacts DEF IInv, Open, Goto, server, call, Active
  <1>1. /\ pc[w] = "open" /\ Served(w) /\ gen \in Nat /\ gen' \in 0..MaxDrops
        /\ \/ pc' = [pc EXCEPT ![w] = "read"] /\ gen' = gen
           \/ pc' = [pc EXCEPT ![w] = "error"] /\ gen' = gen + 1
    BY OnErrorFacts, FilesAssumption DEF Request, Loses, TypeOK
  <1>2. TypeOK'
    BY <1>1, PCsFacts DEF TypeOK
  <1>3. InMethod'
    BY <1>1 DEF InMethod, TypeOK, Served, Over
  <1>4. TempsInOrder'
    BY <1>1 DEF TempsInOrder, InMethod, TypeOK, Served, Over
  <1>5. OneAtATime'
    BY <1>1 DEF OneAtATime, InMethod, TypeOK, Over
  <1>6. Undisturbed'
    BY <1>1 DEF Undisturbed, OneAtATime, TempsInOrder, InMethod, TypeOK, Served, Over
  <1>7. VersionKept'
    BY <1>1 DEF VersionKept, Undisturbed, OnlyReplacements, TempsInOrder, OneAtATime,
       InMethod, TypeOK, Served, Kept, InPlace, Over
  <1>8. Steady'
    BY <1>1 DEF Steady, TempsInOrder, InMethod, TypeOK, InPlace, Over
  <1>9. AllSaved'
    BY <1>1 DEF AllSaved, OnlyReplacements, Replaced, Undisturbed, TempsInOrder, OneAtATime, InMethod,
       TypeOK, Steady, Over
  <1>10. QED
    BY <1>2, <1>3, <1>4, <1>5, <1>6, <1>7, <1>8, <1>9 DEF IInv

\* The original goes; the new text is in the temporary file.
LEMMA RemoveKeepsIInv ==
  ASSUME IInv, NEW w \in Calls, Remove(w)
  PROVE  IInv'
  <1> USE InodeFacts DEF IInv, Remove, Goto, server, call, Active
  <1>1. /\ pc[w] = "remove" /\ Served(w) /\ gen \in Nat /\ gen' \in 0..MaxDrops
        /\ \/ pc' = [pc EXCEPT ![w] = "rename"] /\ gen' = gen
           \/ pc' = [pc EXCEPT ![w] = "rename"] /\ gen' = gen + 1
    BY OnErrorFacts, FilesAssumption DEF Request, Loses, TypeOK
  <1>2. TypeOK'
    BY <1>1, PCsFacts DEF TypeOK
  <1>3. InMethod'
    BY <1>1 DEF InMethod, TypeOK, Served, Over
  <1>4. TempsInOrder'
    BY <1>1 DEF TempsInOrder, InMethod, TypeOK, Served, Over
  <1>5. OneAtATime'
    BY <1>1 DEF OneAtATime, InMethod, TypeOK, Over
  <1>6. Undisturbed'
    BY <1>1 DEF Undisturbed, OneAtATime, TempsInOrder, InMethod, TypeOK, Served, Over
  <1>7. VersionKept'
    BY <1>1 DEF VersionKept, Undisturbed, OnlyReplacements, TempsInOrder, OneAtATime,
       InMethod, TypeOK, Served, Kept, InPlace, Over
  <1>8. Steady'
    BY <1>1 DEF Steady, TempsInOrder, InMethod, TypeOK, InPlace, Over
  <1>9. AllSaved'
    BY <1>1 DEF AllSaved, OnlyReplacements, Replaced, Undisturbed, TempsInOrder, OneAtATime, InMethod,
       TypeOK, Steady, Over
  <1>10. QED
    BY <1>2, <1>3, <1>4, <1>5, <1>6, <1>7, <1>8, <1>9 DEF IInv

\* An empty temporary file: the path is untouched.
LEMMA CreateKeepsIInv ==
  ASSUME IInv, NEW w \in Calls, Create(w)
  PROVE  IInv'
  <1> USE InodeFacts DEF IInv, Create, Goto, server, call, Active
  <1>1. /\ pc[w] = "create" /\ Served(w) /\ gen \in Nat /\ gen' \in 0..MaxDrops
        /\ \/ pc' = [pc EXCEPT ![w] = "write"] /\ gen' = gen
           \/ pc' = [pc EXCEPT ![w] = "error"] /\ gen' = gen + 1
    BY OnErrorFacts, FilesAssumption DEF Request, Loses, TypeOK
  <1>a. Part(text[w]) \in Content /\ ~ Part(text[w]).whole
    BY ContentFacts DEF TypeOK
  <1>2. TypeOK'
    BY <1>1, PCsFacts, <1>a DEF TypeOK
  <1>3. InMethod'
    BY <1>1, <1>a DEF InMethod, TypeOK, Served, Over
  <1>4. TempsInOrder'
    BY <1>1, <1>a DEF TempsInOrder, InMethod, TypeOK, Served, Over
  <1>5. OneAtATime'
    BY <1>1, <1>a DEF OneAtATime, InMethod, TypeOK, Over
  <1>6. Undisturbed'
    BY <1>1, <1>a DEF Undisturbed, OneAtATime, TempsInOrder, InMethod, TypeOK, Served, Over
  <1>7. VersionKept'
    BY <1>1, <1>a DEF VersionKept, Undisturbed, OnlyReplacements, TempsInOrder, OneAtATime,
       InMethod, TypeOK, Served, Kept, InPlace, Over
  <1>8. Steady'
    BY <1>1, <1>a DEF Steady, TempsInOrder, InMethod, TypeOK, InPlace, Over
  <1>9. AllSaved'
    BY <1>1, <1>a DEF AllSaved, OnlyReplacements, Replaced, Undisturbed, TempsInOrder, OneAtATime, InMethod,
       TypeOK, Steady, Over
  <1>10. QED
    BY <1>2, <1>3, <1>4, <1>5, <1>6, <1>7, <1>8, <1>9 DEF IInv

\* The temporary file is complete, unless the call does not learn of it.
LEMMA WriteTempKeepsIInv ==
  ASSUME IInv, NEW w \in Calls, WriteTemp(w)
  PROVE  IInv'
  <1> USE InodeFacts DEF IInv, WriteTemp, Goto, server, call, Active
  <1>1. /\ pc[w] = "write" /\ Served(w) /\ gen \in Nat /\ gen' \in 0..MaxDrops
        /\ \/ pc' = [pc EXCEPT ![w] = "remove"] /\ gen' = gen
           \/ pc' = [pc EXCEPT ![w] = "cleanup"] /\ gen' = gen + 1
    BY OnErrorFacts, FilesAssumption DEF Request, Loses, TypeOK
  <1>2. TypeOK'
    BY <1>1, PCsFacts DEF TypeOK
  <1>3. InMethod'
    BY <1>1 DEF InMethod, TypeOK, Served, Over
  <1>4. TempsInOrder'
    BY <1>1 DEF TempsInOrder, InMethod, TypeOK, Served, Over
  <1>5. OneAtATime'
    BY <1>1 DEF OneAtATime, InMethod, TypeOK, Over
  <1>6. Undisturbed'
    BY <1>1 DEF Undisturbed, OneAtATime, TempsInOrder, InMethod, TypeOK, Served, Over
  <1>7. VersionKept'
    BY <1>1 DEF VersionKept, Undisturbed, OnlyReplacements, TempsInOrder, OneAtATime,
       InMethod, TypeOK, Served, Kept, InPlace, Over
  <1>8. Steady'
    BY <1>1 DEF Steady, TempsInOrder, InMethod, TypeOK, InPlace, Over
  <1>9. AllSaved'
    BY <1>1 DEF AllSaved, OnlyReplacements, Replaced, Undisturbed, TempsInOrder, OneAtATime, InMethod,
       TypeOK, Steady, Over
  <1>10. QED
    BY <1>2, <1>3, <1>4, <1>5, <1>6, <1>7, <1>8, <1>9 DEF IInv

\* The temporary file takes the path, which names nothing.
LEMMA RenameKeepsIInv ==
  ASSUME IInv, NEW w \in Calls, Rename(w)
  PROVE  IInv'
  <1> USE InodeFacts DEF IInv, Rename, Goto, server, call, Active
  <1>1. /\ pc[w] = "rename" /\ Served(w) /\ gen \in Nat /\ gen' \in 0..MaxDrops
        /\ \/ pc' = [pc EXCEPT ![w] = "ok"] /\ gen' = gen
           \/ pc' = [pc EXCEPT ![w] = "openfile"] /\ gen' = gen + 1
    BY OnErrorFacts, FilesAssumption DEF Request, Loses, TypeOK
  <1>2. TypeOK'
    BY <1>1, PCsFacts DEF TypeOK
  <1>3. InMethod'
    BY <1>1 DEF InMethod, TypeOK, Served, Over
  <1>4. TempsInOrder'
    BY <1>1 DEF TempsInOrder, InMethod, TypeOK, Served, Over
  <1>5. OneAtATime'
    BY <1>1 DEF OneAtATime, InMethod, TypeOK, Over
  <1>6. Undisturbed'
    BY <1>1 DEF Undisturbed, OneAtATime, TempsInOrder, InMethod, TypeOK, Served, Over
  <1>7. VersionKept'
    BY <1>1 DEF VersionKept, Undisturbed, OnlyReplacements, TempsInOrder, OneAtATime,
       InMethod, TypeOK, Served, Kept, InPlace, Over
  <1>8. Steady'
    BY <1>1 DEF Steady, TempsInOrder, InMethod, TypeOK, InPlace, Over
  <1>9. AllSaved'
    BY <1>1 DEF AllSaved, OnlyReplacements, Replaced, Undisturbed, TempsInOrder, OneAtATime, InMethod,
       TypeOK, Steady, Over
  <1>10. QED
    BY <1>2, <1>3, <1>4, <1>5, <1>6, <1>7, <1>8, <1>9 DEF IInv

\* A reader has its text.
LEMMA ReadAllKeepsIInv ==
  ASSUME IInv, NEW w \in Calls, ReadAll(w)
  PROVE  IInv'
  <1> USE InodeFacts DEF IInv, ReadAll, Goto, server, call, Active
  <1>1. /\ pc[w] = "read" /\ Served(w) /\ gen \in Nat /\ gen' \in 0..MaxDrops
        /\ \/ pc' = [pc EXCEPT ![w] = "ok"] /\ gen' = gen
           \/ pc' = [pc EXCEPT ![w] = "error"] /\ gen' = gen + 1
    BY OnErrorFacts, FilesAssumption DEF Request, Loses, TypeOK
  <1>a. PICK x \in Reads(w) : text' = [text EXCEPT ![w] = x]
    BY DEF Reads
  <1>b. /\ handle[w] \in Inodes /\ x \in Content /\ x.has = data[handle[w]].has
        /\ text[w] = data[handle[w]] => x = text[w]
    BY <1>1, ContentFacts DEF Reads, TypeOK, InMethod
  <1>2. TypeOK'
    BY <1>1, PCsFacts, <1>a, <1>b DEF TypeOK
  <1>3. InMethod'
    BY <1>1, <1>a, <1>b DEF InMethod, TypeOK, Served, Over
  <1>4. TempsInOrder'
    BY <1>1, <1>a, <1>b DEF TempsInOrder, InMethod, TypeOK, Served, Over
  <1>5. OneAtATime'
    BY <1>1, <1>a, <1>b DEF OneAtATime, InMethod, TypeOK, Over
  <1>6. Undisturbed'
    BY <1>1, <1>a, <1>b DEF Undisturbed, OneAtATime, TempsInOrder, InMethod, TypeOK, Served, Over
  <1>7. VersionKept'
    BY <1>1, <1>a, <1>b DEF VersionKept, Undisturbed, OnlyReplacements, TempsInOrder, OneAtATime,
       InMethod, TypeOK, Served, Kept, InPlace, Over
  <1>8. Steady'
    BY <1>1, <1>a, <1>b DEF Steady, TempsInOrder, InMethod, TypeOK, InPlace, Over
  <1>9. AllSaved'
    BY <1>1, <1>a, <1>b DEF AllSaved, OnlyReplacements, Replaced, Undisturbed, TempsInOrder, OneAtATime, InMethod,
       TypeOK, Steady, Over
  <1>10. QED
    BY <1>2, <1>3, <1>4, <1>5, <1>6, <1>7, <1>8, <1>9 DEF IInv

\* A replacement has read the file and makes the new text.
LEMMA MakeTextKeepsIInv ==
  ASSUME IInv, NEW w \in Calls, MakeText(w)
  PROVE  IInv'
  <1> USE InodeFacts DEF IInv, MakeText, Goto, server, call, Active
  <1>1. /\ pc[w] = "read" /\ Served(w) /\ gen \in Nat /\ gen' \in 0..MaxDrops
        /\ \/ pc' = [pc EXCEPT ![w] = "create"] /\ gen' = gen
           \/ pc' = [pc EXCEPT ![w] = "error"] /\ gen' = gen + 1
    BY OnErrorFacts, FilesAssumption DEF Request, Loses, TypeOK
  <1>a. PICK x \in Reads(w) : text' = [text EXCEPT ![w] = Text(w, x)]
    BY DEF Reads
  <1>b. /\ handle[w] \in Inodes /\ x \in Content /\ x.has = data[handle[w]].has
        /\ text[w] = data[handle[w]] => x = text[w]
    BY <1>1, ContentFacts DEF Reads, TypeOK, InMethod
  <1> DEFINE y == Text(w, x)
  <1>c. y \in Content /\ y.has = x.has \cup {w} /\ y.by = w /\ y.whole = x.whole
    BY <1>b, ContentFacts
  <1>d. text' = [text EXCEPT ![w] = y]
    BY <1>a
  <1> HIDE DEF y
  <1>2. TypeOK'
    BY <1>1, PCsFacts, <1>b, <1>c, <1>d DEF TypeOK
  <1>3. InMethod'
    BY <1>1, <1>b, <1>c, <1>d DEF InMethod, TypeOK, Served, Over
  <1>4. TempsInOrder'
    BY <1>1, <1>b, <1>c, <1>d DEF TempsInOrder, InMethod, TypeOK, Served, Over
  <1>5. OneAtATime'
    BY <1>1, <1>b, <1>c, <1>d DEF OneAtATime, InMethod, TypeOK, Over
  <1>6. Undisturbed'
    BY <1>1, <1>b, <1>c, <1>d DEF Undisturbed, OneAtATime, TempsInOrder, InMethod, TypeOK, Served, Over
  <1>7. VersionKept'
    BY <1>1, <1>b, <1>c, <1>d DEF VersionKept, Undisturbed, OnlyReplacements, TempsInOrder, OneAtATime,
       InMethod, TypeOK, Served, Kept, InPlace, Over
  <1>8. Steady'
    BY <1>1, <1>b, <1>c, <1>d DEF Steady, TempsInOrder, InMethod, TypeOK, InPlace, Over
  <1>9. AllSaved'
    BY <1>1, <1>b, <1>c, <1>d DEF AllSaved, OnlyReplacements, Replaced, Undisturbed, TempsInOrder, OneAtATime, InMethod,
       TypeOK, Steady, Over
  <1>10. QED
    BY <1>2, <1>3, <1>4, <1>5, <1>6, <1>7, <1>8, <1>9 DEF IInv

\* A temporary file goes: after a failed write, or when the fallback is done.
LEMMA RemoveTempKeepsIInv ==
  ASSUME IInv, NEW w \in Calls, RemoveTemp(w)
  PROVE  IInv'
  <1> USE InodeFacts DEF IInv, RemoveTemp, Goto, server, call, Active
  <1>1. /\ Served(w) /\ gen \in Nat /\ gen' \in 0..MaxDrops
        /\ \/ pc[w] = "cleanup" /\ pc' = [pc EXCEPT ![w] = "error"]
           \/ pc[w] = "tidy" /\ pc' = [pc EXCEPT ![w] = "ok"]
        /\ gen' = gen \/ gen' = gen + 1
    BY OnErrorFacts, FilesAssumption DEF Request, Loses, TypeOK
  <1>2. TypeOK'
    BY <1>1, PCsFacts DEF TypeOK
  <1>3. InMethod'
    BY <1>1 DEF InMethod, TypeOK, Served, Over
  <1>4. TempsInOrder'
    BY <1>1 DEF TempsInOrder, InMethod, TypeOK, Served, Over
  <1>5. OneAtATime'
    BY <1>1 DEF OneAtATime, InMethod, TypeOK, Over
  <1>6. Undisturbed'
    BY <1>1 DEF Undisturbed, OneAtATime, TempsInOrder, InMethod, TypeOK, Served, Over
  <1>7. VersionKept'
    BY <1>1 DEF VersionKept, Undisturbed, OnlyReplacements, TempsInOrder, OneAtATime,
       InMethod, TypeOK, Served, Kept, InPlace, Over
  <1>8. Steady'
    BY <1>1 DEF Steady, TempsInOrder, InMethod, TypeOK, InPlace, Over
  <1>9. AllSaved'
    BY <1>1 DEF AllSaved, OnlyReplacements, Replaced, Undisturbed, TempsInOrder, OneAtATime, InMethod,
       TypeOK, Steady, Over
  <1>10. QED
    BY <1>2, <1>3, <1>4, <1>5, <1>6, <1>7, <1>8, <1>9 DEF IInv

\* WriteFile finds no file, or gets an error it takes for that.
LEMMA StatKeepsIInv ==
  ASSUME IInv, NEW w \in Calls, Stat(w)
  PROVE  IInv'
  <1> USE InodeFacts DEF IInv, Stat, Goto, server, call, Active
  <1>1. /\ pc[w] = "stat" /\ gen \in Nat /\ gen' \in 0..MaxDrops
        /\ \/ pc' = [pc EXCEPT ![w] = "error"] /\ gen' = gen
           \/ /\ pc' = [pc EXCEPT ![w] = "mkdir"] /\ gen' = gen
              /\ path = None \/ ~ Served(w) \/ "blind" \in past'
           \/ pc' = [pc EXCEPT ![w] = "mkdir"] /\ gen' = gen + 1
    BY FilesAssumption DEF Loses, TypeOK
  <1>a. /\ past' \subseteq {"overlap", "fallback", "blind"} /\ past \subseteq past'
        /\ "overlap" \in past' => "overlap" \in past
        /\ "fallback" \in past' => "fallback" \in past
    BY DEF TypeOK
  <1>2. TypeOK'
    BY <1>1, <1>a, PCsFacts DEF TypeOK
  <1>3. InMethod'
    BY <1>1, <1>a DEF InMethod, TypeOK, Served, Over
  <1>4. TempsInOrder'
    BY <1>1, <1>a DEF TempsInOrder, InMethod, TypeOK, Served, Over
  <1>5. OneAtATime'
    BY <1>1, <1>a DEF OneAtATime, InMethod, TypeOK, Over
  <1>6. Undisturbed'
    BY <1>1, <1>a DEF Undisturbed, OneAtATime, TempsInOrder, InMethod, TypeOK, Served, Over
  <1>7. VersionKept'
    BY <1>1, <1>a DEF VersionKept, Undisturbed, OnlyReplacements, TempsInOrder, OneAtATime,
       InMethod, TypeOK, Served, Kept, InPlace, Over
  <1>8. Steady'
    BY <1>1, <1>a DEF Steady, TempsInOrder, InMethod, TypeOK, InPlace, Over
  <1>9. AllSaved'
    BY <1>1, <1>a DEF AllSaved, OnlyReplacements, Replaced, Undisturbed, TempsInOrder, OneAtATime, InMethod,
       TypeOK, Steady, Over
  <1>10. QED
    BY <1>2, <1>3, <1>4, <1>5, <1>6, <1>7, <1>8, <1>9 DEF IInv

\* The directories are there; the path is untouched.
LEMMA MkdirAllKeepsIInv ==
  ASSUME IInv, NEW w \in Calls, MkdirAll(w)
  PROVE  IInv'
  <1> USE InodeFacts DEF IInv, MkdirAll, Goto, server, call, Active
  <1>1. pc[w] = "mkdir" /\ pc' = [pc EXCEPT ![w] = "openfile"] /\ gen' = gen
    OBVIOUS
  <1>2. TypeOK'
    BY <1>1, PCsFacts DEF TypeOK
  <1>3. InMethod'
    BY <1>1 DEF InMethod, TypeOK, Served, Over
  <1>4. TempsInOrder'
    BY <1>1 DEF TempsInOrder, InMethod, TypeOK, Served, Over
  <1>5. OneAtATime'
    BY <1>1 DEF OneAtATime, InMethod, TypeOK, Over
  <1>6. Undisturbed'
    BY <1>1 DEF Undisturbed, OneAtATime, TempsInOrder, InMethod, TypeOK, Served, Over
  <1>7. VersionKept'
    BY <1>1 DEF VersionKept, Undisturbed, OnlyReplacements, TempsInOrder, OneAtATime,
       InMethod, TypeOK, Served, Kept, InPlace, Over
  <1>8. Steady'
    BY <1>1 DEF Steady, TempsInOrder, InMethod, TypeOK, InPlace, Over
  <1>9. AllSaved'
    BY <1>1 DEF AllSaved, OnlyReplacements, Replaced, Undisturbed, TempsInOrder, OneAtATime, InMethod,
       TypeOK, Steady, Over
  <1>10. QED
    BY <1>2, <1>3, <1>4, <1>5, <1>6, <1>7, <1>8, <1>9 DEF IInv

\* The file is truncated; in a fallback, the temporary file has the text.
LEMMA OpenFileKeepsIInv ==
  ASSUME IInv, NEW w \in Calls, OpenFile(w)
  PROVE  IInv'
  <1> USE InodeFacts DEF IInv, OpenFile, Goto, server, call, Active
  <1>1. /\ pc[w] = "openfile" /\ Served(w) /\ gen \in Nat /\ gen' \in 0..MaxDrops
        /\ \/ pc' = [pc EXCEPT ![w] = "rewrite"] /\ gen' = gen
           \/ pc' = [pc EXCEPT ![w] = "error"] /\ gen' = gen + 1
    BY OnErrorFacts, FilesAssumption DEF Request, Loses, TypeOK
  <1>a. PICK i \in Inodes : /\ i = IF path = None THEN File(w) ELSE path
                          /\ path' = i /\ handle' = [handle EXCEPT ![w] = i]
                          /\ data' = [data EXCEPT ![i] = Part(text[w])]
    BY DEF TypeOK
  <1>b. /\ Part(text[w]) \in Content /\ ~ Part(text[w]).whole
        /\ Part(text[w]).has = text[w].has /\ Part(text[w]).by = text[w].by
    BY ContentFacts DEF TypeOK
  <1>2. TypeOK'
    <2>1. past' \subseteq {"overlap", "fallback", "blind"}
      BY DEF TypeOK
    <2>2. QED
      BY <1>1, PCsFacts, <1>a, <1>b, <2>1 DEF TypeOK
  <1>3. InMethod'
    BY <1>1, <1>a, <1>b DEF InMethod, TypeOK, Served, Over
  <1>4. TempsInOrder'
    BY <1>1, <1>a, <1>b DEF TempsInOrder, InMethod, TypeOK, Served, Over
  <1>5. OneAtATime'
    BY <1>1, <1>a, <1>b DEF OneAtATime, InMethod, TypeOK, Over
  <1>6. Undisturbed'
    BY <1>1, <1>a, <1>b DEF Undisturbed, OneAtATime, TempsInOrder, InMethod, TypeOK, Served, Over
  <1>7. VersionKept'
    BY <1>1, <1>a, <1>b DEF VersionKept, Undisturbed, OnlyReplacements, TempsInOrder, OneAtATime,
       InMethod, TypeOK, Served, Kept, InPlace, Over
  <1>8. Steady'
    BY <1>1, <1>a, <1>b DEF Steady, TempsInOrder, InMethod, TypeOK, InPlace, Over
  <1>9. AllSaved'
    BY <1>1, <1>a, <1>b DEF AllSaved, OnlyReplacements, Replaced, Undisturbed, TempsInOrder, OneAtATime, InMethod,
       TypeOK, Steady, Over
  <1>10. QED
    BY <1>2, <1>3, <1>4, <1>5, <1>6, <1>7, <1>8, <1>9 DEF IInv

\* The file is written in place.
LEMMA RewriteKeepsIInv ==
  ASSUME IInv, NEW w \in Calls, Rewrite(w)
  PROVE  IInv'
  <1> USE InodeFacts DEF IInv, Rewrite, Goto, server, call, Active
  <1>1. /\ pc[w] = "rewrite" /\ Served(w) /\ gen \in Nat /\ gen' \in 0..MaxDrops
        /\ \/ /\ pc' = [pc EXCEPT ![w] = IF kind[w] = "replace" THEN "tidy" ELSE "ok"]
              /\ gen' = gen
           \/ pc' = [pc EXCEPT ![w] = "error"] /\ gen' = gen + 1
    BY OnErrorFacts, FilesAssumption DEF Request, Loses, TypeOK
  <1>a. PICK x \in {text[w]} \cup IF Mixed(w) THEN {Part(text[w])} ELSE {} :
           data' = [data EXCEPT ![handle[w]] = x]
    OBVIOUS
  <1>b. x \in Content /\ handle[w] \in Inodes
    BY <1>1, <1>a, ContentFacts DEF TypeOK, InMethod
  <1>c. ("overlap" \notin past /\ kind[w] = "replace") => x = text[w]
    <2>1. SUFFICES ASSUME "overlap" \notin past, kind[w] = "replace"
                   PROVE  ~ Mixed(w)
      BY <1>a
    <2>2. handle[w] = path /\ data[path] = Part(text[w]) /\ text[w] \in Content
      BY <1>1, <2>1 DEF Undisturbed, TypeOK
    <2>3. data[handle[w]].by = text[w].by
      BY <2>2, ContentFacts
    <2>4. Active(w)
      BY <1>1, <2>1 DEF Over
    <2>5. text[w].by = w
      BY <1>1, <2>1, <2>4 DEF InMethod
    <2>6. ASSUME NEW v \in Calls \ {w}, pc[v] = "rewrite" PROVE FALSE
      <3>1. Active(v)
        BY <2>6 DEF InMethod, Over
      <3>2. QED
        BY <2>1, <2>4, <3>1 DEF OneAtATime
    <2>7. QED
      BY <2>3, <2>5, <2>6 DEF Mixed
  <1>2. TypeOK'
    BY <1>1, PCsFacts, <1>a, <1>b, <1>c DEF TypeOK
  <1>3. InMethod'
    BY <1>1, <1>a, <1>b, <1>c DEF InMethod, TypeOK, Served, Over
  <1>4. TempsInOrder'
    BY <1>1, <1>a, <1>b, <1>c DEF TempsInOrder, InMethod, TypeOK, Served, Over
  <1>5. OneAtATime'
    BY <1>1, <1>a, <1>b, <1>c DEF OneAtATime, InMethod, TypeOK, Over
  <1>6. Undisturbed'
    BY <1>1, <1>a, <1>b, <1>c DEF Undisturbed, OneAtATime, TempsInOrder, InMethod, TypeOK, Served, Over
  <1>7. VersionKept'
    BY <1>1, <1>a, <1>b, <1>c DEF VersionKept, Undisturbed, OnlyReplacements, TempsInOrder, OneAtATime,
       InMethod, TypeOK, Served, Kept, InPlace, Over
  <1>8. Steady'
    BY <1>1, <1>a, <1>b, <1>c DEF Steady, TempsInOrder, InMethod, TypeOK, InPlace, Over
  <1>9. AllSaved'
    BY <1>1, <1>a, <1>b, <1>c DEF AllSaved, OnlyReplacements, Replaced, Undisturbed, TempsInOrder, OneAtATime, InMethod,
       TypeOK, Steady, Over
  <1>10. QED
    BY <1>2, <1>3, <1>4, <1>5, <1>6, <1>7, <1>8, <1>9 DEF IInv

\* The connection is lost between two requests.
LEMMA LinkLostKeepsIInv ==
  ASSUME IInv, LinkLost
  PROVE  IInv'
  <1> USE InodeFacts DEF IInv, LinkLost, Goto, server, call, Active
  <1>1. gen \in Nat /\ gen' \in 0..MaxDrops /\ gen' = gen + 1 /\ UNCHANGED pc
    BY FilesAssumption DEF Loses, TypeOK
  <1>2. TypeOK'
    BY <1>1, PCsFacts DEF TypeOK
  <1>3. InMethod'
    BY <1>1 DEF InMethod, TypeOK, Served, Over
  <1>4. TempsInOrder'
    BY <1>1 DEF TempsInOrder, InMethod, TypeOK, Served, Over
  <1>5. OneAtATime'
    BY <1>1 DEF OneAtATime, InMethod, TypeOK, Over
  <1>6. Undisturbed'
    BY <1>1 DEF Undisturbed, OneAtATime, TempsInOrder, InMethod, TypeOK, Served, Over
  <1>7. VersionKept'
    BY <1>1 DEF VersionKept, Undisturbed, OnlyReplacements, TempsInOrder, OneAtATime,
       InMethod, TypeOK, Served, Kept, InPlace, Over
  <1>8. Steady'
    BY <1>1 DEF Steady, TempsInOrder, InMethod, TypeOK, InPlace, Over
  <1>9. AllSaved'
    BY <1>1 DEF AllSaved, OnlyReplacements, Replaced, Undisturbed, TempsInOrder, OneAtATime, InMethod,
       TypeOK, Steady, Over
  <1>10. QED
    BY <1>2, <1>3, <1>4, <1>5, <1>6, <1>7, <1>8, <1>9 DEF IInv

\* The invariant is inductive.
LEMMA NextKeepsIInv == IInv /\ [Next]_vars => IInv'
  <1> SUFFICES ASSUME IInv, [Next]_vars PROVE IInv'
    OBVIOUS
  <1>1. CASE LinkLost
    BY <1>1, LinkLostKeepsIInv
  <1>2. ASSUME NEW w \in Calls, Step(w) PROVE IInv'
    <2>1. CASE InvokeReplace(w) \/ InvokeView(w) \/ InvokeDownload(w)
      BY <2>1, EnterKeepsIInv DEF InvokeReplace, InvokeView, InvokeDownload
    <2>2. ASSUME NEW o \in BOOLEAN, InvokeWrite(w, o) \/ InvokeUpload(w, o) PROVE IInv'
      BY <2>2, EnterKeepsIInv DEF InvokeWrite, InvokeUpload
    <2>3. CASE Fails(w) \/ Open(w) \/ ReadAll(w) \/ MakeText(w)
      BY <2>3, FailsKeepsIInv, OpenKeepsIInv, ReadAllKeepsIInv, MakeTextKeepsIInv
    <2>4. CASE Create(w) \/ WriteTemp(w) \/ Remove(w) \/ Rename(w) \/ RemoveTemp(w)
      BY <2>4, CreateKeepsIInv, WriteTempKeepsIInv, RemoveKeepsIInv, RenameKeepsIInv,
         RemoveTempKeepsIInv
    <2>5. CASE Stat(w) \/ MkdirAll(w) \/ OpenFile(w) \/ Rewrite(w)
      BY <2>5, StatKeepsIInv, MkdirAllKeepsIInv, OpenFileKeepsIInv, RewriteKeepsIInv
    <2>6. QED
      BY <1>2, <2>1, <2>2, <2>3, <2>4, <2>5 DEF Step
  <1>3. CASE UNCHANGED vars
    BY <1>3
       DEF vars, server, call, IInv, TypeOK, InMethod, TempsInOrder, OneAtATime, Undisturbed,
           VersionKept, Steady, AllSaved, OnlyReplacements, Replaced, InPlace, Kept, Active,
           Served
  <1>4. QED
    BY <1>1, <1>2, <1>3 DEF Next

-----------------------------------------------------------------------------
(* The theorems *)

\* IInv is invariant: the strengthening the theorems below follow from.
THEOREM Inductive == Spec => []IInv
  BY InitIInv, NextKeepsIInv, PTL DEF Spec

\* Replacements that do not overlap never lose the text of the file, and never
\* an edit that was reported successful, whichever of their requests failed.
THEOREM NothingLost == Spec => []TextSurvives
  <1>1. IInv => TextSurvives
    <2> SUFFICES ASSUME IInv, OnlyReplacements, NEW w \in Calls, handle[w] # None
                 PROVE  \E i \in Named :
                           /\ data[i].whole
                           /\ "fallback" \notin past => Replaced \subseteq data[i].has
      BY Zenon DEF TextSurvives
    <2>1. /\ path # None => path \in Named
          /\ \A v \in temps : Temp(v) \in Named
      BY InodeFacts DEF IInv, TypeOK, Named
    <2>2. CASE "fallback" \in past
      BY <2>1, <2>2 DEF IInv, VersionKept, InPlace
    <2>3. CASE "fallback" \notin past
      BY <2>1, <2>3 DEF IInv, AllSaved, Steady, InPlace, OnlyReplacements
    <2>4. QED
      BY <2>2, <2>3
  <1>2. QED
    BY <1>1, Inductive, PTL

\* A view or download next to replacements reads a complete version, unless one
\* of them rewrites the file in place.
THEOREM WholeReads == Spec => []ReadsAreWhole
  <1>1. IInv => ReadsAreWhole
    BY DEF IInv, Steady, ReadsAreWhole
  <1>2. QED
    BY <1>1, Inductive, PTL

\* A write or upload without overwrite opens no file that was there when it
\* looked, if the server let it look.
THEOREM NothingOverwritten == Spec => []NoOverwrite
  <1>1. Init => NoOverwrite
    BY DEF Init, NoOverwrite
  <1>2. IInv /\ NoOverwrite /\ [Next]_vars => NoOverwrite'
    <2> SUFFICES ASSUME IInv, NoOverwrite, [Next]_vars PROVE NoOverwrite'
      OBVIOUS
    <2>1. ASSUME NEW w \in Calls, NEW k, NEW o, NEW l, Enter(w, k, o, l)
          PROVE  NoOverwrite'
      BY <2>1 DEF Enter, NoOverwrite, IInv, TypeOK, InMethod
    <2>2. ASSUME NEW w \in Calls, Open(w) PROVE NoOverwrite'
      BY <2>2 DEF Open, Request, NoOverwrite, IInv, TypeOK, InMethod, call
    <2>3. ASSUME NEW w \in Calls, OpenFile(w) PROVE NoOverwrite'
      BY <2>3 DEF OpenFile, Request, Exclusive, NoOverwrite, IInv, TypeOK, InMethod,
                  Undisturbed, call
    <2>4. ASSUME NEW w \in Calls,
                 \/ Fails(w) \/ ReadAll(w) \/ MakeText(w) \/ Create(w) \/ WriteTemp(w)
                 \/ Remove(w) \/ Rename(w) \/ RemoveTemp(w) \/ Stat(w) \/ MkdirAll(w)
                 \/ Rewrite(w)
          PROVE  NoOverwrite'
      <3>1. UNCHANGED <<kind, over, handle>> /\ past \subseteq past'
        BY <2>4 DEF Fails, ReadAll, MakeText, Create, WriteTemp, Remove, Rename,
                    RemoveTemp, Stat, MkdirAll, Rewrite, call
      <3>2. QED
        BY <3>1 DEF NoOverwrite
    <2>5. CASE LinkLost \/ UNCHANGED vars
      BY <2>5 DEF LinkLost, vars, call, NoOverwrite
    <2>6. QED
      BY <2>1, <2>2, <2>3, <2>4, <2>5
         DEF Next, Step, InvokeReplace, InvokeWrite, InvokeUpload, InvokeView, InvokeDownload
  <1>3. QED
    BY <1>1, <1>2, Inductive, PTL DEF Spec

\* A replacement that reports success while no other call is at work has put
\* its text in place: by its rename, or by the fallback.
THEOREM EffectOnSuccess == Spec => ReplaceTakesEffect
  <1>1. IInv /\ [Next]_vars =>
           \A w \in Calls :
              (/\ kind[w] = "replace" /\ pc[w] # "ok" /\ pc'[w] = "ok"
               /\ "overlap" \notin past)
              => (path' # None /\ data'[path'] = text[w])
    <2> SUFFICES ASSUME IInv, [Next]_vars, NEW w \in Calls,
                        kind[w] = "replace", pc[w] # "ok", pc'[w] = "ok",
                        "overlap" \notin past
                 PROVE  path' # None /\ data'[path'] = text[w]
      OBVIOUS
    <2> USE OnErrorFacts DEF IInv, TypeOK, Goto
    <2>1. CASE Rename(w)
      <3>1. w \in temps /\ data[Temp(w)] = text[w]
        BY <2>1 DEF Rename, Request, TempsInOrder
      <3>2. QED
        BY <2>1, <3>1, InodeFacts DEF Rename
    <2>2. CASE RemoveTemp(w) \/ Fails(w)
      <3>1. pc[w] = "tidy" /\ UNCHANGED <<path, data>>
        BY <2>2 DEF RemoveTemp, Fails, Request, server
      <3>2. QED
        BY <3>1 DEF Undisturbed
    <2>3. Rename(w) \/ RemoveTemp(w) \/ Fails(w)
      <3>1. PICK v \in Calls : Step(v)
        BY DEF Next, LinkLost, vars
      <3>2. CASE \/ InvokeReplace(v) \/ InvokeView(v) \/ InvokeDownload(v)
                 \/ \E o \in BOOLEAN : InvokeWrite(v, o) \/ InvokeUpload(v, o)
        BY <3>2 DEF InvokeReplace, InvokeWrite, InvokeUpload, InvokeView, InvokeDownload, Enter
      <3>3. CASE \/ Open(v) \/ MakeText(v) \/ Create(v) \/ WriteTemp(v) \/ Remove(v)
                 \/ Stat(v) \/ MkdirAll(v) \/ OpenFile(v)
        BY <3>3 DEF Open, MakeText, Create, WriteTemp, Remove, Stat, MkdirAll, OpenFile, Request
      <3>4. CASE ReadAll(v) \/ Rewrite(v)
        BY <3>4 DEF ReadAll, Rewrite, Request
      <3>5. CASE Rename(v) \/ RemoveTemp(v) \/ Fails(v)
        <4>1. v = w
          BY <3>5 DEF Rename, RemoveTemp, Fails, Request
        <4>2. QED
          BY <3>5, <4>1
      <3>6. QED
        BY <3>1, <3>2, <3>3, <3>4, <3>5 DEF Step
    <2>4. QED
      BY <2>1, <2>2, <2>3
  <1>2. QED
    BY <1>1, Inductive, PTL DEF Spec, ReplaceTakesEffect
=============================================================================
