----------------------------- MODULE Identities -----------------------------
(***************************************************************************)
(* Accounts, SSH keys, passwords, mail tokens and role-card names          *)
(* (storage/src/identities.rs).  No login runs in a transaction: each of   *)
(* its statements is a step, and only the tables' unique indexes and the   *)
(* comparison in ensure_user_account stand between two logins of a name.   *)
(* agenda[c] holds the statements client c has yet to issue.               *)
(***************************************************************************)
EXTENDS Naturals, Sequences

CONSTANTS
    Users, Keys,        \* user names and key fingerprints
    People,             \* player ids
    KeyPlayer,          \* player_id_from_key: two spellings may share an id
    PasswordPlayer,     \* player_id_from_password_username
    ValidNames,         \* names that role_card_name_is_valid accepts
    Visitors,           \* connections, one call at a time each
    Nobody              \* the absent name, player or user

ASSUME IdentitiesAssumption ==
    /\ KeyPlayer \in [Users \X Keys -> People]
    /\ PasswordPlayer \in [Users -> People]
    /\ Nobody \notin Users \cup People

VARIABLES
    profile,    \* player_profiles.display_name, Nobody when there is no row
    account,    \* user_accounts
    sshKeys,    \* ssh_identities: user, key, player
    secrets,    \* password_identities
    mailTokens, \* mail_auth_tokens of users
    agenda, request

idTables == <<profile, account, sshKeys, secrets, mailTokens>>
idVars   == <<idTables, agenda, request>>

NoRequest == [op |-> "key", user |-> Nobody, player |-> Nobody, key |-> Nobody]

Calls(ops, keys) == [op : ops, user : Users, player : People, key : keys]
IdentityCall == Calls({"key"}, Keys) \cup Calls({"password", "token", "rename"}, {Nobody})

(* The statements of each call; "account" with the "profile" before it is  *)
(* ensure_user_account.                                                    *)
Agenda(op) ==
    CASE op = "key"      -> <<"known", "free", "profile", "account", "bound", "profile", "bind">>
      [] op = "password" -> <<"verify", "free", "profile", "account", "profile", "secret">>
      [] op = "token"    -> <<"profile", "account", "profile", "token">>
      [] op = "rename"   -> <<"rename">>

IdentitiesInit ==
    /\ profile = [p \in People |-> Nobody]
    /\ account = [u \in Users |-> Nobody]
    /\ sshKeys = {}
    /\ secrets = [u \in Users |-> Nobody] /\ mailTokens = [u \in Users |-> Nobody]
    /\ agenda = [c \in Visitors |-> <<>>]
    /\ request = [c \in Visitors |-> NoRequest]

Due(c, label) == agenda[c] # <<>> /\ Head(agenda[c]) = label

(* On to the next statement, or the end of the call. *)
Proceed(c) == agenda' = [agenda EXCEPT ![c] = Tail(@)] /\ UNCHANGED request
Answer(c)  == /\ agenda'  = [agenda EXCEPT ![c] = <<>>]
              /\ request' = [request EXCEPT ![c] = NoRequest]
Resolve(c) == IF Len(agenda[c]) = 1 THEN Answer(c) ELSE Proceed(c)

-----------------------------------------------------------------------------
(* A public key is offered under any free or taken name; the other calls   *)
(* are of a player whose session is open, so whose key or secret is known. *)
HasSession(u, p) == \/ \E k \in Keys : <<u, k, p>> \in sshKeys
                    \/ secrets[u] = p

BeginIdentity(c, call) ==
    /\ agenda[c] = <<>>
    /\ call.op = "key" => call.player = KeyPlayer[<<call.user, call.key>>]
    /\ call.op = "password" => call.player = PasswordPlayer[call.user]
    /\ call.op \notin {"key", "password"} => HasSession(call.user, call.player)
    /\ agenda' = [agenda EXCEPT ![c] = Agenda(call.op)]
    /\ request' = [request EXCEPT ![c] = call]
    /\ UNCHANGED idTables

(* update ssh_identities ... where username and key: a known key is let in. *)
KnownKey(c) ==
    LET r == request[c]
    IN  /\ Due(c, "known")
        /\ IF \E p \in People : <<r.user, r.key, p>> \in sshKeys
             THEN Answer(c) ELSE Proceed(c)
        /\ UNCHANGED idTables

(* A name without a secret, or a wrong password, goes on. *)
VerifySecret(c) ==
    /\ Due(c, "verify")
    /\ \/ secrets[request[c].user] # Nobody /\ Answer(c)
       \/ Resolve(c)
    /\ UNCHANGED idTables

(* A new key or password may take an unused name only. *)
NameIsFree(c) ==
    /\ Due(c, "free")
    /\ IF account[request[c].user] = Nobody THEN Proceed(c) ELSE Answer(c)
    /\ UNCHANGED idTables

(* on conflict (player_id) do update; a display name is unique, and an     *)
(* insert that repeats one fails.                                          *)
NameTaken(name, p) == \E other \in People \ {p} : profile[other] = name

EnsureProfile(c) ==
    LET r == request[c]
    IN  /\ Due(c, "profile")
        /\ IF profile[r.player] = Nobody /\ NameTaken(r.user, r.player)
             THEN Answer(c) /\ UNCHANGED profile
             ELSE /\ profile' = IF profile[r.player] = Nobody
                                  THEN [profile EXCEPT ![r.player] = r.user]
                                  ELSE profile
                  /\ Resolve(c)
        /\ UNCHANGED <<account, sshKeys, secrets, mailTokens>>

(* on conflict (username) do update, then the stored player is compared;   *)
(* user_accounts.player_id is unique.                                      *)
BelongsToAnyone(r) == TRUE      \* a mutant: the stored player is not compared
Belongs(r) == account[r.user] = r.player
Unclaimed(r) == account[r.user] = Nobody /\ \A u \in Users : account[u] # r.player

EnsureUserAccount(c) ==
    LET r == request[c]
    IN  /\ Due(c, "account")
        /\ IF Belongs(r) \/ Unclaimed(r)
             THEN account' = [account EXCEPT ![r.user] = r.player] /\ Proceed(c)
             ELSE UNCHANGED account /\ Answer(c)
        /\ UNCHANGED <<profile, sshKeys, secrets, mailTokens>>

(* ssh_key_owner: limit 1, any of the key's rows. *)
KeyIsFree(c) ==
    LET r      == request[c]
        owners == {u \in Users : \E p \in People : <<u, r.key, p>> \in sshKeys}
    IN  /\ Due(c, "bound")
        /\ \/ owners = {} /\ Proceed(c)
           \/ \E u \in owners : IF u = r.user THEN Proceed(c) ELSE Answer(c)
        /\ UNCHANGED idTables

BindKey(c) ==
    LET r == request[c]
    IN  /\ Due(c, "bind")
        /\ sshKeys' = IF \E p \in People : <<r.user, r.key, p>> \in sshKeys
                        THEN sshKeys ELSE sshKeys \cup {<<r.user, r.key, r.player>>}
        /\ Answer(c)
        /\ UNCHANGED <<profile, account, secrets, mailTokens>>

(* on conflict (username) do nothing, and the stored secret is verified. *)
CreateSecret(c) ==
    LET r == request[c]
    IN  /\ Due(c, "secret")
        /\ IF secrets[r.user] = Nobody
             THEN /\ secrets' = [secrets EXCEPT ![r.user] = r.player]
                  /\ Answer(c)
             ELSE /\ agenda' = [agenda EXCEPT ![c] = <<"verify">>]
                  /\ UNCHANGED <<secrets, request>>
        /\ UNCHANGED <<profile, account, sshKeys, mailTokens>>

SetMailToken(c) ==
    /\ Due(c, "token")
    /\ mailTokens' = [mailTokens EXCEPT ![request[c].user] = request[c].player]
    /\ Answer(c)
    /\ UNCHANGED <<profile, account, sshKeys, secrets>>

-----------------------------------------------------------------------------
(* update_role_card: the name is trimmed and valid, and unique. *)
Rename(c) ==
    LET p == request[c].player
    IN  /\ Due(c, "rename")
        /\ \E name \in ValidNames :
              profile' = IF NameTaken(name, p) THEN profile
                                               ELSE [profile EXCEPT ![p] = name]
        /\ Answer(c)
        /\ UNCHANGED <<account, sshKeys, secrets, mailTokens>>

(* The connection goes, or the server stops: what is committed stays. *)
Disconnect(c) == /\ agenda[c] # <<>>
                 /\ Answer(c)
                 /\ UNCHANGED idTables

IdentityStatement(c) ==
    \/ KnownKey(c) \/ VerifySecret(c) \/ NameIsFree(c)
    \/ EnsureProfile(c) \/ EnsureUserAccount(c)
    \/ KeyIsFree(c) \/ BindKey(c) \/ CreateSecret(c) \/ SetMailToken(c)
    \/ Rename(c)

IdentityStep(c, menu) ==
    \/ \E call \in menu : BeginIdentity(c, call)
    \/ IdentityStatement(c)
    \/ Disconnect(c)
-----------------------------------------------------------------------------
IdentitiesTypeOK ==
    /\ profile \in [People -> Users \cup ValidNames \cup {Nobody}]
    /\ account \in [Users -> People \cup {Nobody}]
    /\ sshKeys \subseteq Users \X Keys \X People
    /\ {secrets, mailTokens} \subseteq [Users -> People \cup {Nobody}]
    /\ \A c \in Visitors : request[c] = NoRequest \/ request[c] \in IdentityCall

(* Whatever a name logs in with, it is one player: every key, password and *)
(* mail token of a name carries the player of its account, though two      *)
(* first logins of the name may pass the same check, rename in between,    *)
(* and leave off anywhere.                                                 *)
NamesAreOnePlayer ==
    /\ \A row \in sshKeys : account[row[1]] = row[3]
    /\ \A u \in Users : {secrets[u], mailTokens[u]} \subseteq {account[u], Nobody}
=============================================================================
