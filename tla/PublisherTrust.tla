--------------------------- MODULE PublisherTrust ---------------------------
(* Signed plugins: core/signing360.py, the publishers' table of              *)
(* core/storage360.py, and the plugin operations of service360.py.  An       *)
(* author generates a key pair, signs the plugin's file into a bundle and    *)
(* hands the public key to be added as a publisher's; plugin_verify_trusted  *)
(* checks the bundle with the publisher's key, which it passes in a file of  *)
(* the workspace named by the publisher alone.  A pair is the number of its  *)
(* generation, and stands for its fingerprint too.                           *)
EXTENDS Integers

CONSTANTS
    Contents,   \* what the plugin's file may hold
    Calls,      \* calls of plugin_verify_trusted for one publisher
    MaxKeys,    \* bound: key pairs generated
    MaxChanges  \* bound: bundles signed, keys added, publishers revoked, edits

TrustAssumption == MaxKeys \in Nat \ {0} /\ MaxChanges \in Nat

VARIABLES
    pair,       \* the author's two key files, and a generation in progress
    plugin,     \* what the plugin's file holds
    bundle,     \* the bundle's file: the signer, and the content signed
    publisher,  \* the publisher's row: its key (0 for no row), revoked
    temp,       \* tmp/publisher-NAME.pem: a key, Absent or Empty
    call,       \* each verification
    changes     \* changes made so far

trustVars == <<pair, plugin, bundle, publisher, temp, call, changes>>

Key == 0 .. MaxKeys
Absent == -1
Empty == 0
Idle == [at |-> "idle", key |-> 0, loaded |-> 0, verdict |-> "none", shared |-> FALSE]

Init ==
    /\ pair = [private |-> 0, public |-> 0, last |-> 0]
    /\ plugin \in Contents
    /\ bundle = [signer |-> 0, content |-> plugin]
    /\ publisher = [key |-> 0, revoked |-> FALSE]
    /\ temp = Absent
    /\ call = [c \in Calls |-> Idle]
    /\ changes = 0

-----------------------------------------------------------------------------
(* generate_signing_keypair writes the private key, then the public one, and *)
(* may be killed between the two.                                            *)
WritePrivate ==
    /\ pair.last < MaxKeys
    /\ pair' = [pair EXCEPT !.last = @ + 1, !.private = pair.last + 1]
    /\ UNCHANGED <<plugin, bundle, publisher, temp, call, changes>>

WritePublic ==
    /\ pair.public # pair.private
    /\ pair' = [pair EXCEPT !.public = pair.private]
    /\ UNCHANGED <<plugin, bundle, publisher, temp, call, changes>>

Changed == changes < MaxChanges /\ changes' = changes + 1

Edit(content) ==
    /\ Changed /\ plugin # content
    /\ plugin' = content
    /\ UNCHANGED <<pair, bundle, publisher, temp, call>>

Sign ==
    /\ Changed /\ pair.private # 0
    /\ bundle' = [signer |-> pair.private, content |-> plugin]
    /\ UNCHANGED <<pair, plugin, publisher, temp, call>>

(* A key added under a publisher's name replaces the key of the row and its  *)
(* revocation.                                                               *)
AddPublisher ==
    /\ Changed /\ pair.public # 0
    /\ publisher' = [key |-> pair.public, revoked |-> FALSE]
    /\ UNCHANGED <<pair, plugin, bundle, temp, call>>

Revoke ==
    /\ Changed /\ publisher.key # 0
    /\ publisher' = [publisher EXCEPT !.revoked = TRUE]
    /\ UNCHANGED <<pair, plugin, bundle, temp, call>>

-----------------------------------------------------------------------------
(* plugin_verify_trusted.                                                    *)
UseFile == {"open", "write", "load", "unlink"}
Others(c) == {d \in Calls \ {c} : call[d].at \in UseFile}

(* The row is read; a publisher that is unknown is an error and one that is  *)
(* revoked a refusal.  History: which verifications have shared the file.    *)
ReadRecord(c) ==
    /\ call[c].at = "idle" /\ publisher.key # 0
    /\ IF publisher.revoked
       THEN call' = [call EXCEPT ![c] = [Idle EXCEPT !.verdict = "refused"]]
       ELSE call' = [d \in Calls |->
                CASE d = c -> [Idle EXCEPT !.at = "open", !.key = publisher.key,
                                           !.shared = Others(c) # {}]
                  [] d \in Others(c) -> [call[d] EXCEPT !.shared = TRUE]
                  [] OTHER -> call[d]]
    /\ UNCHANGED <<pair, plugin, bundle, publisher, temp, changes>>

(* Path.write_text truncates the file, then writes the key.                  *)
OpenTemp(c) ==
    /\ call[c].at = "open"
    /\ temp' = Empty
    /\ call' = [call EXCEPT ![c].at = "write"]
    /\ UNCHANGED <<pair, plugin, bundle, publisher, changes>>

(* The descriptor outlives the unlink of another verification: what is then  *)
(* written is in no file, or not in the one made since.                      *)
WriteTemp(c) ==
    /\ call[c].at = "write"
    /\ \/ temp # Absent /\ temp' = call[c].key
       \/ call[c].shared /\ temp' = temp
    /\ call' = [call EXCEPT ![c].at = "load"]
    /\ UNCHANGED <<pair, plugin, bundle, publisher, changes>>

Raise(c) ==
    call' = [call EXCEPT ![c] = [@ EXCEPT !.at = "idle", !.verdict = "raised"]]

(* The bundle may be unreadable: the error leaves the key's file behind.     *)
BadBundle(c) ==
    /\ call[c].at = "load"
    /\ call' = [call EXCEPT ![c] = [@ EXCEPT !.at = "idle", !.verdict = "unread"]]
    /\ UNCHANGED <<pair, plugin, bundle, publisher, temp, changes>>

(* verify_plugin: the key, then the content against the manifest's digest,   *)
(* then the signature.                                                       *)
Verify(c) ==
    /\ call[c].at = "load"
    /\ IF temp \in {Absent, Empty}
       THEN Raise(c)
       ELSE call' = [call EXCEPT ![c] = [@ EXCEPT !.at = "unlink", !.loaded = temp,
                !.verdict = IF bundle = [signer |-> temp, content |-> plugin]
                            THEN "trusted" ELSE "untrusted"]]
    /\ UNCHANGED <<pair, plugin, bundle, publisher, temp, changes>>

Unlink(c) ==
    /\ call[c].at = "unlink"
    /\ temp' = Absent
    /\ call' = [call EXCEPT ![c].at = "idle"]
    /\ UNCHANGED <<pair, plugin, bundle, publisher, changes>>

Next ==
    \/ WritePrivate \/ WritePublic \/ Sign \/ AddPublisher \/ Revoke
    \/ \E content \in Contents : Edit(content)
    \/ \E c \in Calls : \/ ReadRecord(c) \/ OpenTemp(c) \/ WriteTemp(c)
                        \/ BadBundle(c) \/ Verify(c) \/ Unlink(c)

-----------------------------------------------------------------------------
Verifications ==
    [at : {"idle"} \cup UseFile, key : Key, loaded : Key, shared : BOOLEAN,
     verdict : {"none", "refused", "unread", "raised", "trusted", "untrusted"}]

TypeOK ==
    /\ pair \in [private : Key, public : Key, last : Key]
    /\ plugin \in Contents
    /\ bundle \in [signer : Key, content : Contents]
    /\ publisher \in [key : Key, revoked : BOOLEAN]
    /\ temp \in {Absent} \cup Key
    /\ call \in [Calls -> Verifications]
    /\ changes \in 0 .. MaxChanges

(* The fingerprint a verdict is reported with is of the key the signature    *)
(* was checked with, and a verification whose bundle can be read gives a     *)
(* verdict, unless two verifications of the publisher have overlapped: a     *)
(* file left by one that failed, or a key replaced between two, does no harm *)
(* (plugin_verify_trusted).                                                  *)
VerdictIsOwn ==
    \A c \in Calls :
        \/ call[c].shared
        \/ /\ call[c].verdict # "raised"
           /\ call[c].verdict \in {"trusted", "untrusted"} => call[c].loaded = call[c].key
=============================================================================
