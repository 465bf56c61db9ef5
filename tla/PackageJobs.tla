---------------------------- MODULE PackageJobs ----------------------------
(* service.py, the operations on several packages or APK files of one device *)
(* and one user: install_apks, uninstall_packages, install_apk_set and       *)
(* pull_apks, with the checks of modules/apk.py.  Each is one adb command    *)
(* after another, run with check=True: the first that fails or is late ends  *)
(* the call with an exception, and what was done before it stays done.       *)
(* Other calls, and the device's own updates, come between two commands.     *)
EXTENDS Integers, SequencesExt

CONSTANTS
    Packages,
    LocalFiles, \* local files; those that are no .apk are in no Package
    Package,    \* APK file -> the package in it
    Signer,     \* APK file -> the certificate it is signed with
    FileLists, PackageLists,   \* what calls are made with
    Calls,
    MaxBuilds,  \* bound: installations
    MaxFaults   \* bound: commands that fail or are late of themselves

Apk == DOMAIN Package

PackageJobsAssumption ==
    /\ Apk \subseteq LocalFiles /\ DOMAIN Signer = Apk
    /\ \A f \in Apk : Package[f] \in Packages
    /\ FileLists \subseteq Seq(LocalFiles) /\ PackageLists \subseteq Seq(Packages)
    /\ MaxBuilds \in Nat /\ MaxFaults \in Nat

VARIABLES
    installed,  \* package -> its APK files, and the number of the
                \* installation, of which the device makes their paths
    call,       \* each call
    touched,    \* history: call -> packages others changed since it did
    builds,     \* installations so far
    faults

packageVars == <<installed, call, touched, builds, faults>>

Gone == [files |-> {}, build |-> 0]
Idle == [op |-> "none", list |-> <<>>, replace |-> FALSE, next |-> 1,
         paths |-> {}, got |-> {}, end |-> "none"]

Init ==
    /\ installed = [p \in Packages |-> Gone]
    /\ call = [c \in Calls |-> Idle]
    /\ touched = [c \in Calls |-> {}]
    /\ builds = 0 /\ faults = 0

At(c, ops) == call[c].op \in ops /\ call[c].end = "none"
End(c, end) == call' = [call EXCEPT ![c].end = end]
Item(c) == call[c].list[call[c].next]
Turn(c) ==   \* the next turn of the loop, or the answer
    call' = [call EXCEPT ![c].next = @ + 1,
                         ![c].end = IF call[c].next = Len(call[c].list) THEN "ok" ELSE @]

Begin(c, op, list, replace) ==
    /\ call[c].op = "none" /\ list # <<>>
    /\ call' = [call EXCEPT ![c] =
           [Idle EXCEPT !.op = op, !.list = list, !.replace = replace]]
    /\ touched' = [touched EXCEPT ![c] = {}]
    /\ UNCHANGED <<installed, builds, faults>>

Beginning ==
    \E c \in Calls, replace \in BOOLEAN :
        \/ \E list \in FileLists, op \in {"install", "set"} : Begin(c, op, list, replace)
        \/ \E list \in PackageLists, op \in {"uninstall", "pull"} : Begin(c, op, list, FALSE)

-----------------------------------------------------------------------------
(* A command that would install `files` as p, or remove p when there are     *)
(* none: it is done, it fails, or its time-out leaves it done or not.        *)

Accepted(p, files, replace) ==
    IF files = {} THEN installed[p].files # {}
    ELSE \/ installed[p].files = {}
         \/ replace /\ \A f \in files, g \in installed[p].files : Signer[f] = Signer[g]

Does(p, files, others) ==
    /\ IF files = {} THEN UNCHANGED builds
       ELSE builds < MaxBuilds /\ builds' = builds + 1
    /\ installed' = [installed EXCEPT ![p] =
           IF files = {} THEN Gone ELSE [files |-> files, build |-> builds + 1]]
    /\ touched' = [c \in Calls |-> IF c \in others THEN touched[c] \cup {p} ELSE touched[c] \ {p}]

DoesNothing == UNCHANGED <<installed, touched, builds>>
Fault == faults < MaxFaults /\ faults' = faults + 1

\* Faulty: the failure is only noted.
FailsQuietly(c) == Turn(c)

(* AdbClient.run raises what is not a success.                               *)
Fails(c) == End(c, "raised")

Command(c, p, files, accepted) ==
    \/ accepted /\ Does(p, files, Calls \ {c}) /\ Turn(c) /\ UNCHANGED faults
    \/ ~accepted /\ DoesNothing /\ Fails(c) /\ UNCHANGED faults
    \/ Fault /\ Fails(c) /\ DoesNothing
    \/ Fault /\ Fails(c) /\ accepted /\ Does(p, files, Calls)

(* install_apks looks at a file's suffix only when its turn comes.           *)
Install(c) ==
    /\ At(c, {"install"})
    /\ LET f == Item(c)
       IN IF f \in Apk
          THEN Command(c, Package[f], {f}, Accepted(Package[f], {f}, call[c].replace))
          ELSE End(c, "raised") /\ UNCHANGED <<installed, touched, builds, faults>>

Uninstall(c) ==
    /\ At(c, {"uninstall"})
    /\ Command(c, Item(c), {}, Accepted(Item(c), {}, FALSE))

(* discover_apk_set takes the .apk files; validate_apk_set refuses more than *)
(* one package or certificate among them, when the tools that tell are       *)
(* there; the device refuses them in any case.                               *)
Discovered(c) == ToSet(call[c].list) \cap Apk
OneApp(files) ==
    /\ \E p \in Packages : \A f \in files : Package[f] = p
    /\ \A f, g \in files : Signer[f] = Signer[g]

InstallSet(c) ==
    /\ At(c, {"set"}) /\ call[c].next = 1
    /\ LET files == Discovered(c)
           p == Package[CHOOSE f \in files : TRUE]
       IN IF files # {} /\ OneApp(files)
          THEN /\ \/ Accepted(p, files, call[c].replace) /\ Does(p, files, Calls \ {c})
                     /\ End(c, "ok") /\ UNCHANGED faults
                  \/ ~Accepted(p, files, call[c].replace) /\ DoesNothing
                     /\ End(c, "raised") /\ UNCHANGED faults
                  \/ Fault /\ End(c, "raised") /\ DoesNothing
                  \/ Fault /\ End(c, "raised") /\ Accepted(p, files, call[c].replace)
                     /\ Does(p, files, Calls)
          ELSE End(c, "raised") /\ UNCHANGED <<installed, touched, builds, faults>>

-----------------------------------------------------------------------------
(* pull_apks resolves the paths of every package first, then pulls them one  *)
(* by one; a path of an installation that is no more cannot be pulled.       *)
PathsOf(p) == {<<p, f, installed[p].build>> : f \in installed[p].files}

Resolve(c) ==
    /\ At(c, {"pull"}) /\ call[c].next <= Len(call[c].list)
    /\ \/ /\ installed[Item(c)].files # {}
          /\ call' = [call EXCEPT ![c].next = @ + 1, ![c].paths = @ \cup PathsOf(Item(c))]
          /\ touched' = [touched EXCEPT ![c] = @ \ {Item(c)}]
          /\ UNCHANGED faults
       \/ installed[Item(c)].files = {} /\ End(c, "raised") /\ UNCHANGED <<touched, faults>>
       \/ Fault /\ End(c, "raised") /\ UNCHANGED touched
    /\ UNCHANGED <<installed, builds>>

Pull(c) ==
    /\ At(c, {"pull"}) /\ call[c].next > Len(call[c].list)
    /\ \E path \in call[c].paths \ call[c].got :
         \/ /\ path \in PathsOf(path[1])
            /\ call' = [call EXCEPT ![c].got = @ \cup {path},
                   ![c].end = IF @ = "none" /\ call[c].got \cup {path} = call[c].paths
                              THEN "ok" ELSE @]
            /\ UNCHANGED faults
         \/ path \notin PathsOf(path[1]) /\ Fails(c) /\ UNCHANGED faults
         \/ Fault /\ Fails(c)
    /\ UNCHANGED <<installed, touched, builds>>

(* The device updates or removes a package by itself.                        *)
Device ==
    \E p \in Packages, files \in {{}} \cup {{f} : f \in Apk} :
        /\ Fault
        /\ files = {} \/ files \subseteq {f \in Apk : Package[f] = p}
        /\ Accepted(p, files, TRUE)
        /\ Does(p, files, Calls)
        /\ UNCHANGED call

Next ==
    \/ Beginning \/ Device
    \/ \E c \in Calls : \/ Install(c) \/ Uninstall(c) \/ InstallSet(c)
                        \/ Resolve(c) \/ Pull(c)

-----------------------------------------------------------------------------
TypeOK ==
    /\ installed \in [Packages -> [files : SUBSET Apk, build : 0 .. MaxBuilds]]
    /\ \A c \in Calls :
         /\ call[c].op \in {"none", "install", "uninstall", "set", "pull"}
         /\ call[c].list \in {<<>>} \cup FileLists \cup PackageLists
         /\ call[c].replace \in BOOLEAN /\ call[c].next \in 1 .. Len(call[c].list) + 1
         /\ call[c].got \subseteq call[c].paths
         /\ call[c].end \in {"none", "ok", "raised"}
    /\ touched \in [Calls -> SUBSET Packages]
    /\ builds \in 0 .. MaxBuilds /\ faults \in 0 .. MaxFaults

LastOf(list, p) ==
    LET of == {i \in DOMAIN list : list[i] \in Apk /\ Package[list[i]] = p}
    IN {list[i] : i \in {j \in of : \A k \in of : k <= j}}

(* What a call's answer says is on the device, or was when it was pulled.    *)
SaysOf(c, p) ==
    CASE call[c].op = "install" -> LastOf(call[c].list, p) = installed[p].files
      [] call[c].op = "set" -> Discovered(c) = installed[p].files
      [] call[c].op = "uninstall" -> installed[p].files = {}
      [] call[c].op = "pull" -> {path \in call[c].got : path[1] = p} = PathsOf(p)

Concerns(c) ==
    IF call[c].op \in {"install", "set"} THEN {Package[f] : f \in Discovered(c)}
    ELSE ToSet(call[c].list)

(* A call that answers and does not raise has done all of its list: every    *)
(* package it names is on the device, gone, or pulled whole as it says, but  *)
(* for packages that something else has changed since (install_apks,         *)
(* uninstall_packages, install_apk_set, pull_apks).                          *)
AnswersForAll ==
    \A c \in Calls :
        call[c].end = "ok" => \A p \in Concerns(c) \ touched[c] : SaysOf(c, p)
=============================================================================
