------------------------------ MODULE TlsStore ------------------------------
(***************************************************************************)
(* The web server's TLS material (webtls372.py): serve with what it is     *)
(* given on the command line, or with the certificate and the key that     *)
(* ensure_self_signed_tls keeps in one directory, where it renews them     *)
(* when they do not fit.                                                   *)
(*                                                                         *)
(* The key is replaced first and the certificate second; both are read     *)
(* again, by the TLS library, when the server starts to listen.  Two       *)
(* servers may start at once in the same directory; none takes a lock.     *)
(***************************************************************************)
EXTENDS Naturals

CONSTANTS Servers,
          Hosts,       \* names and addresses a server may be reached by
          MaxPairs,    \* bound: pairs generated
          MaxStarts    \* bound: starts

\* Assumed by the modules that give the constants values.
TlsStoreAssumption == MaxPairs \in Nat /\ MaxStarts \in Nat

VARIABLES key,      \* the pair whose key is in the directory; 0 for no file
          cert,     \* the pair whose certificate is there
          pair,     \* the pairs generated so far
          server,
          starts

tlsVars == <<key, cert, pair, server, starts>>

NoPair == [hosts |-> {}, age |-> "none"]
Stopped == [at |-> "stopped", hosts |-> {}, chosen |-> 0, shown |-> 0,
            serves |-> "none", loaded |-> 0, overlapped |-> FALSE]

\* From the first look at the directory to the last one.
Steps == {"check", "check_key", "make", "write_key", "write_cert", "listen", "load_key"}

Pairs == [hosts : SUBSET Hosts, age : {"fresh", "old", "expired"}]
States == [at : Steps \cup {"stopped", "running", "refused", "failed"},
           hosts : SUBSET Hosts, chosen : 0 .. MaxPairs, shown : 0 .. MaxPairs,
           serves : {"none", "http", "given", "managed"},
           loaded : 0 .. MaxPairs, overlapped : BOOLEAN]

TypeOK ==
    /\ {key, cert} \subseteq 0 .. MaxPairs
    /\ pair \in [1 .. MaxPairs -> {NoPair} \cup Pairs]
    /\ server \in [Servers -> States]
    /\ starts \in 0 .. MaxStarts

Init ==
    /\ key = 0 /\ cert = 0
    /\ pair = [n \in 1 .. MaxPairs |-> NoPair]
    /\ server = [s \in Servers |-> Stopped]
    /\ starts = 0

At(s, where) == server[s].at = where
Goto(s, where) == server' = [server EXCEPT ![s].at = where]

\* Servers between their first look at the directory and the last one.
Starting == {s \in Servers : server[s].at \in Steps /\ server[s].serves = "managed"}

Begin(s, state) ==
    /\ server[s].at \in {"stopped", "refused", "failed"}
    /\ starts < MaxStarts
    /\ starts' = starts + 1
    /\ server' = [t \in Servers |->
          IF t = s THEN state
          ELSE IF state.serves = "managed" /\ t \in Starting
               THEN [server[t] EXCEPT !.overlapped = TRUE] ELSE server[t]]
    /\ UNCHANGED <<key, cert, pair>>

\* A loopback address without certificate, or --insecure-http: no TLS.
ServePlain(s) == Begin(s, [Stopped EXCEPT !.at = "running", !.serves = "http"])

\* --tls-cert and --tls-key, which are validated: unreadable, unmatched and
\* expired ones are refused, as is one option without the other.
ServeGiven(s, good) ==
    Begin(s, [Stopped EXCEPT !.at = IF good THEN "running" ELSE "refused", !.serves = "given"])

\* A token that is too short, or a name that cannot be put into a certificate.
ServeRefused(s) == Begin(s, [Stopped EXCEPT !.at = "refused"])

\* A remote address without options: ensure_self_signed_tls.
ServeManaged(s, hosts) ==
    Begin(s, [Stopped EXCEPT !.at = "check", !.hosts = hosts, !.serves = "managed",
                             !.overlapped = Starting # {}])

\* No file, or only one of them: generate.  Else the certificate is read.
Check(s) ==
    /\ At(s, "check")
    /\ IF key = 0 \/ cert = 0
       THEN Goto(s, "make")
       ELSE server' = [server EXCEPT ![s].at = "check_key", ![s].chosen = cert]
    /\ UNCHANGED <<key, cert, pair, starts>>

\* The key belongs to the certificate, which is valid for more than 30 days and
\* for all the names now required.
Fits(s) ==
    /\ server[s].chosen = key
    /\ server[s].hosts \subseteq pair[server[s].chosen].hosts
    /\ pair[server[s].chosen].age = "fresh"

\* The key is read; a pair that fits is used again.
CheckKey(s) ==
    /\ At(s, "check_key")
    /\ IF Fits(s)
       THEN server' = [server EXCEPT ![s].at = "listen", ![s].shown = server[s].chosen]
       ELSE Goto(s, "make")
    /\ UNCHANGED <<key, cert, pair, starts>>

\* generate_self_signed_tls, in memory.
Make(s, n) ==
    /\ At(s, "make")
    /\ pair[n] = NoPair /\ \A m \in 1 .. n - 1 : pair[m] # NoPair
    /\ pair' = [pair EXCEPT ![n] = [hosts |-> server[s].hosts, age |-> "fresh"]]
    /\ server' = [server EXCEPT ![s].at = "write_key", ![s].chosen = n]
    /\ UNCHANGED <<key, cert, starts>>

\* os.replace of a file of the process's own, for the key and the certificate.
WriteKey(s) ==
    /\ At(s, "write_key")
    /\ key' = server[s].chosen
    /\ Goto(s, "write_cert")
    /\ UNCHANGED <<cert, pair, starts>>

WriteCert(s) ==
    /\ At(s, "write_cert")
    /\ cert' = server[s].chosen
    /\ server' = [server EXCEPT ![s].at = "listen", ![s].shown = server[s].chosen]
    /\ UNCHANGED <<key, pair, starts>>

\* A file cannot be written: "TLS setup failed".
WriteFails(s) ==
    /\ At(s, "write_key") \/ At(s, "write_cert")
    /\ Goto(s, "refused")
    /\ UNCHANGED <<key, cert, pair, starts>>

\* uvicorn loads the certificate, then the key, which must match it.
Load(s) ==
    /\ At(s, "listen")
    /\ server' = [server EXCEPT ![s].at = "load_key", ![s].loaded = cert]
    /\ UNCHANGED <<key, cert, pair, starts>>

LoadKey(s) ==
    /\ At(s, "load_key")
    /\ Goto(s, IF key = server[s].loaded THEN "running" ELSE "failed")
    /\ UNCHANGED <<key, cert, pair, starts>>

\* Ended or killed, at any point.
Stop(s) ==
    /\ ~At(s, "stopped")
    /\ server' = [server EXCEPT ![s] = Stopped]
    /\ UNCHANGED <<key, cert, pair, starts>>

\* Time passes.
Age(n) ==
    /\ pair[n].age \in {"fresh", "old"}
    /\ Starting = {}
    /\ pair' = [pair EXCEPT ![n].age = IF @ = "fresh" THEN "old" ELSE "expired"]
    /\ UNCHANGED <<key, cert, server, starts>>

Serve(s) ==
    \/ ServePlain(s) \/ ServeRefused(s)
    \/ \E good \in BOOLEAN : ServeGiven(s, good)
    \/ \E hosts \in SUBSET Hosts : ServeManaged(s, hosts)
    \/ Check(s) \/ CheckKey(s)
    \/ \E n \in 1 .. MaxPairs : Make(s, n)
    \/ WriteKey(s) \/ WriteCert(s) \/ WriteFails(s)
    \/ Load(s) \/ LoadKey(s) \/ Stop(s)

Next == (\E s \in Servers : Serve(s)) \/ \E n \in 1 .. MaxPairs : Age(n)

-----------------------------------------------------------------------------
(* Properties *)

\* A server that no other overtook while it started serves the certificate
\* whose fingerprint it printed, for all the names it must answer to; whatever
\* a start that was cut off between the two files left in the directory.
StartsAsAnnounced ==
    \A s \in Servers :
        server[s].serves = "managed" /\ ~server[s].overlapped =>
            /\ ~At(s, "failed")
            /\ At(s, "running") => /\ server[s].loaded = server[s].shown
                                   /\ server[s].hosts \subseteq pair[server[s].loaded].hosts
=============================================================================
