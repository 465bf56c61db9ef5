------------------------------ MODULE Captures ------------------------------
(***************************************************************************)
(* Evidence and network captures of one device (service.py,                *)
(* capture_evidence and sniff_capture), called from jobs, requests and the *)
(* command line at the same time.                                          *)
(*                                                                         *)
(* A screen recording always goes to the same file on the device and a     *)
(* network capture to one named by the second, as are the local            *)
(* directories; an output that is asked for may be that of an earlier      *)
(* call.  A command that fails, is cancelled or is refused by the device   *)
(* mostly lets a capture go on (check=False); a time-out ends it.          *)
(***************************************************************************)
EXTENDS Naturals

CONSTANTS Calls,     \* captures, each made once
          Options,   \* what evidence captures are asked for: sets of "package",
                     \* "seconds" and "saves", for an app, with a video, in a project
          Roots,     \* local directories
          Seconds    \* names of the network captures on the device

\* A project and a session come from assess, which has a package.
CapturesAssumption ==
    \A asked \in Options : asked \subseteq {"package", "seconds", "saves"}
                           /\ ("saves" \in asked => "package" \in asked)

VARIABLES remote,    \* files on the device
          local,     \* local files, by directory and name
          call,
          row        \* the rows of `artifacts' a call has saved

captureVars == <<remote, local, call, row>>

Absent == [by |-> "nobody", whole |-> FALSE]
Contents == {Absent} \cup [by : Calls, whole : BOOLEAN]
Commands == {"texts", "bugreport", "video", "apks"}
Files == Commands \cup {"pcap"}
Entries == [name : Files, content : Contents]

\* adding: the file that is written and not yet hashed; failed: what its own
\* command did not deliver; kept: its remote file was left by a removal that
\* failed; met: the other calls that were under way meanwhile.
NewCall == [at |-> "new", kind |-> "evidence", root |-> "none", device |-> "video",
            package |-> FALSE, seconds |-> FALSE, saves |-> FALSE, adding |-> "texts",
            failed |-> {}, kept |-> FALSE, met |-> {}, manifest |-> {}]

TypeOK ==
    /\ remote \in [{"video"} \cup Seconds -> Contents]
    /\ local \in [Roots -> [Files -> Contents]]
    /\ \A c \in Calls :
          /\ call[c].kind \in {"evidence", "sniff"}
          /\ call[c].root \in Roots \cup {"none"} /\ call[c].device \in {"video"} \cup Seconds
          /\ {call[c].package, call[c].seconds, call[c].saves, call[c].kept} \subseteq BOOLEAN
          /\ call[c].adding \in Files /\ call[c].failed \subseteq Files
          /\ call[c].met \subseteq Calls \ {c} /\ call[c].manifest \subseteq Entries
          /\ call[c].at \in {"new", "texts", "bugreport", "record", "recording", "pull", "remove",
                             "add", "apks", "save", "done", "raised"}
    /\ row \in [Calls -> SUBSET Entries]

Init ==
    /\ remote = [f \in {"video"} \cup Seconds |-> Absent]
    /\ local = [r \in Roots |-> [n \in Files |-> Absent]]
    /\ call = [c \in Calls |-> NewCall]
    /\ row = [c \in Calls |-> {}]

Over == {"new", "done", "raised"}
Active == {c \in Calls : call[c].at \notin Over}
Own(c) == [by |-> c, whole |-> TRUE]

At(c, step) == call[c].at = step
Set(c, state) == call' = [call EXCEPT ![c] = state]
Goto(c, step) == Set(c, [call[c] EXCEPT !.at = step])
Put(c, name, content) == local' = [local EXCEPT ![call[c].root][name] = content]
Here(c, name) == local[call[c].root][name]
Entry(name, content) == [name |-> name, content |-> content]


\* The file has been written and is added to the manifest next.
Wrote(c, name) == Set(c, [call[c] EXCEPT !.at = "add", !.adding = name])

-----------------------------------------------------------------------------

Begin(c, state) ==
    /\ At(c, "new")
    /\ call' = [d \in Calls |->
          IF d = c THEN [state EXCEPT !.met = Active]
          ELSE IF d \in Active THEN [call[d] EXCEPT !.met = @ \cup {c}] ELSE call[d]]
    /\ UNCHANGED <<remote, local, row>>

BeginEvidence(c, root) ==
    \E asked \in Options :
        Begin(c, [NewCall EXCEPT !.at = "texts", !.root = root, !.package = "package" \in asked,
                                 !.seconds = "seconds" \in asked, !.saves = "saves" \in asked])

\* sniff_capture: tcpdump is looked for first.
BeginSniff(c, root, second) ==
    Begin(c, [NewCall EXCEPT !.kind = "sniff", !.root = root, !.device = second,
                             !.at = "record"])

\* A command of the device that is not allowed to fail, or a time-out.
Raise(c) ==
    /\ \/ call[c].at \in {"texts", "bugreport", "recording", "pull", "remove", "apks"}
       \/ At(c, "record") /\ call[c].kind = "sniff"
    /\ Goto(c, "raised")
    /\ UNCHANGED <<remote, local, row>>

\* The structured collection, the dumps, the screenshot.
Texts(c) ==
    /\ At(c, "texts")
    /\ Put(c, "texts", Own(c))
    /\ Wrote(c, "texts")
    /\ UNCHANGED <<remote, row>>

Bugreport(c) ==
    /\ At(c, "bugreport")
    /\ Put(c, "bugreport", Own(c))
    /\ Wrote(c, "bugreport")
    /\ UNCHANGED <<remote, row>>

BugreportFails(c) ==
    /\ At(c, "bugreport")
    /\ Set(c, [call[c] EXCEPT !.at = "add", !.adding = "bugreport",
                              !.failed = @ \cup {"bugreport"}])
    /\ UNCHANGED <<remote, local, row>>

\* screenrecord or tcpdump opens its file, or fails before it does.
Record(c) ==
    /\ At(c, "record")
    /\ remote' = [remote EXCEPT ![call[c].device] = [by |-> c, whole |-> FALSE]]
    /\ Goto(c, "recording")
    /\ UNCHANGED <<local, row>>

Product(c) == IF call[c].kind = "sniff" THEN "pcap" ELSE "video"
RecordFails(c) ==
    /\ At(c, "record") /\ call[c].kind = "evidence"
    /\ Set(c, [call[c] EXCEPT !.at = "pull", !.failed = @ \cup {"video"}])
    /\ UNCHANGED <<remote, local, row>>

\* The recording ends, or is stopped short: a code 130 or 143 is taken for
\* success by sniff_capture, any code by capture_evidence.
Recorded(c, whole) ==
    /\ At(c, "recording")
    /\ remote' = [remote EXCEPT ![call[c].device] =
                     IF @.by = c THEN [@ EXCEPT !.whole = whole] ELSE @]
    /\ Set(c, [call[c] EXCEPT !.at = "pull",
                              !.failed = IF whole THEN @ ELSE @ \cup {Product(c)}])
    /\ UNCHANGED <<local, row>>

\* adb pull, which of an evidence capture may fail.
Pull(c) ==
    /\ At(c, "pull")
    /\ remote[call[c].device] # Absent
    /\ Put(c, Product(c), remote[call[c].device])
    /\ Goto(c, "remove")
    /\ UNCHANGED <<remote, row>>

\* Faulty: what could not be pulled is left on the device.
PullFailsLeaves(c) ==
    /\ At(c, "pull") /\ call[c].kind = "evidence"
    /\ Set(c, [call[c] EXCEPT !.at = "add", !.adding = "video", !.failed = @ \cup {"video"}])
    /\ UNCHANGED <<remote, local, row>>

PullFails(c) ==
    /\ At(c, "pull") /\ call[c].kind = "evidence"
    /\ Set(c, [call[c] EXCEPT !.at = "remove", !.failed = @ \cup {"video"}])
    /\ UNCHANGED <<remote, local, row>>

\* rm -f, whatever came before; its own failure is ignored.
Remove(c) ==
    /\ At(c, "remove")
    /\ \E ok \in BOOLEAN :
          /\ remote' = IF ok THEN [remote EXCEPT ![call[c].device] = Absent] ELSE remote
          /\ Set(c, [call[c] EXCEPT !.at = "add", !.adding = Product(c), !.kept = ~ok])
    /\ UNCHANGED <<local, row>>

\* What follows the file that was added, in program order.
AfterAdding(asked) ==
    CASE asked.adding = "texts"     -> "bugreport"
      [] asked.adding = "bugreport" -> IF asked.seconds THEN "record" ELSE "apks"
      [] asked.adding = "video"     -> "apks"
      [] asked.adding = "apks"      -> IF asked.saves THEN "save" ELSE "done"
      [] asked.adding = "pcap"      -> "done"

\* add_artifact: the file is read and hashed as it is now, if one of that name is
\* there; of a network capture the file is returned.
Add(c) ==
    /\ At(c, "add")
    /\ LET name == call[c].adding
           file == Here(c, name)
       IN  Set(c, [call[c] EXCEPT
                      !.at = AfterAdding(call[c]),
                      !.manifest = IF file = Absent THEN @ ELSE @ \cup {Entry(name, file)}])
    /\ UNCHANGED <<remote, local, row>>

\* pull_apks of the package, which raises when one cannot be pulled; at the end
\* the manifest and its signature are written.
Apks(c) ==
    /\ At(c, "apks") /\ call[c].package
    /\ Put(c, "apks", Own(c))
    /\ Wrote(c, "apks")
    /\ UNCHANGED <<remote, row>>

NoApks(c) ==
    /\ At(c, "apks") /\ ~call[c].package
    /\ Goto(c, "done")
    /\ UNCHANGED <<remote, local, row>>

\* save_artifact of one record after the other, each a transaction (in some order).
Save(c) ==
    /\ At(c, "save")
    /\ IF row[c] = call[c].manifest
       THEN Goto(c, "done") /\ UNCHANGED row
       ELSE /\ row' = [row EXCEPT ![c] =
                          @ \cup {CHOOSE e \in call[c].manifest : e \notin row[c]}]
            /\ UNCHANGED call
    /\ UNCHANGED <<remote, local>>

\* Killed, or an unforeseen error, where no command is run.
Kill(c) ==
    /\ At(c, "add") \/ At(c, "save") \/ At(c, "record")
    /\ Goto(c, "raised")
    /\ UNCHANGED <<remote, local, row>>

Capture(c) ==
    \/ \E root \in Roots :
          BeginEvidence(c, root) \/ \E second \in Seconds : BeginSniff(c, root, second)
    \/ Texts(c) \/ Bugreport(c) \/ BugreportFails(c) \/ Record(c) \/ RecordFails(c)
    \/ \E whole \in BOOLEAN : Recorded(c, whole)
    \/ Pull(c) \/ PullFails(c) \/ Remove(c) \/ Add(c) \/ Apks(c) \/ NoApks(c) \/ Save(c)
    \/ Raise(c) \/ Kill(c)

Next == \E c \in Calls : Capture(c)

-----------------------------------------------------------------------------
(* Properties *)

\* Calls c and d write to the same file: of the device, or of a local directory.
Records(c) == call[c].kind = "sniff" \/ call[c].seconds
SameRecording(c, d) == Records(c) /\ Records(d) /\ call[c].device = call[d].device
SameDirectory(c, d) == call[c].kind = call[d].kind /\ call[c].root = call[d].root
Shares(c, d, name) == SameDirectory(c, d) \/ (name = Product(c) /\ SameRecording(c, d))

\* Whatever earlier captures left on the device or in the directory, and however
\* captures overlap: the manifest, and the rows saved from it, attribute to a
\* capture what its own commands delivered, whole; or what was captured by another
\* that was under way meanwhile and wrote to the same file, never by an earlier
\* one.  (Of a network capture the last is not said: it returns a name, and reads
\* nothing.)  What a failed command did not deliver may be an earlier capture's.
Attributable(c, name) ==
    {Own(c)} \cup {content \in Contents :
        \E d \in call[c].met : /\ Shares(c, d, name)
                               /\ call[c].kind = "evidence" => content.by = d}

EvidenceIsOwn ==
    \A c \in Calls : \A e \in call[c].manifest \cup row[c] :
        e.name \notin call[c].failed => e.content \in Attributable(c, e.name)

\* A capture that returns leaves nothing of its own on the device, unless the
\* removal itself failed; what is there is of another that was under way meanwhile
\* and records to the same file.
DeviceCleaned ==
    [][\A c \in Calls :
         call'[c].at = "done" /\ ~At(c, "done") /\ ~call[c].kept /\ Records(c) =>
             \/ remote'[call[c].device] = Absent
             \/ \E d \in call[c].met : SameRecording(c, d) /\ remote'[call[c].device].by = d
      ]_captureVars
=============================================================================
