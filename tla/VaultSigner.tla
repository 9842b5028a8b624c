---------------------------- MODULE VaultSigner ----------------------------
(***************************************************************************)
(* The Vault signer of pkg/agent/vault.go: SignCertificate and             *)
(* GetCACertificate, called by the goroutines of the ADD handlers, the     *)
(* restart and the rotation worker on one Vault client, whose token they   *)
(* share.  Each call looks the token up, renews it or logs in when that is *)
(* needed, and then makes its request with whatever token the client has   *)
(* by then.  Nothing serialises two calls.                                 *)
(*                                                                         *)
(* Time is counted in minutes.  A token is its time to live and what is    *)
(* left of its maximum lifetime, beyond which Vault does not renew it.     *)
(***************************************************************************)
EXTENDS Integers

CONSTANTS
    Callers,    \* the goroutines that call the signer
    Window,     \* a token with less time to live is renewed, 5 minutes
    TokenTTL,   \* the time to live Vault gives a token
    MaxTTL,     \* the maximum lifetime Vault gives a token
    MaxLag,     \* assumption: a call of the signer takes no longer
    Faults,     \* what may fail, a subset of FaultKinds
    NoToken

FaultKinds == {
    "lookup",   \* LookupSelf does not answer
    "ttl",      \* its answer has no time to live
    "renew",    \* RenewSelf fails: no answer, or the token is not renewable
    "login",    \* the secret-id cannot be read, or the login fails
    "request" } \* /sign or /ca fails

Tokens == [ttl : 0 .. TokenTTL, life : 0 .. MaxTTL]

ASSUME TimesAssumption ==
    /\ Window \in Nat
    /\ TokenTTL \in Nat /\ MaxTTL \in Nat /\ TokenTTL <= MaxTTL
    /\ MaxLag \in Nat
ASSUME NoTokenAssumption == NoToken \notin Tokens
ASSUME FaultsAssumption == Faults \subseteq FaultKinds

VARIABLES
    appRole,  \* role_id and secret_id are configured
    token,    \* the token of the client
    pc,       \* pc[p]: where p is in its call
    got,      \* got[p]: the token in the answer to p's login
    lag,      \* lag[p]: since p's call began
    result    \* result[p]: how p's last call ended

call == <<pc, got, lag, result>>
vars == <<appRole, token, call>>

Control == {"idle", "ensure", "lookup", "renew", "login", "set_token", "request"}
Results == {"none", "ok", "failed", "denied"}

\* The environment may have given the client a token.
Init ==
    /\ appRole \in BOOLEAN
    /\ token \in {NoToken} \cup {t \in Tokens : t.ttl <= t.life}
    /\ pc = [p \in Callers |-> "idle"]
    /\ got = [p \in Callers |-> NoToken]
    /\ lag = [p \in Callers |-> 0]
    /\ result = [p \in Callers |-> "none"]

MayFail(f) == f \in Faults
-----------------------------------------------------------------------------
(* Vault.                                                                  *)

Valid(t) == t # NoToken /\ t.ttl > 0

\* The time to live of a token that is issued or renewed.
Lease(life) == IF TokenTTL <= life THEN TokenTTL ELSE life

Sooner(n) == IF n > 0 THEN n - 1 ELSE 0
Older(t) == IF t = NoToken THEN t ELSE [ttl |-> Sooner(t.ttl), life |-> Sooner(t.life)]

\* No call takes longer than MaxLag.
Minute ==
    /\ \A p \in Callers : pc[p] # "idle" => lag[p] < MaxLag
    /\ token' = Older(token)
    /\ got' = [p \in Callers |-> Older(got[p])]
    /\ lag' = [p \in Callers |-> IF pc[p] # "idle" THEN lag[p] + 1 ELSE 0]
    /\ UNCHANGED <<appRole, pc, result>>
-----------------------------------------------------------------------------
(* A call.                                                                 *)

Goto(p, l) == pc' = [pc EXCEPT ![p] = l]

Return(p, r) ==
    /\ Goto(p, "idle")
    /\ lag' = [lag EXCEPT ![p] = 0]
    /\ result' = [result EXCEPT ![p] = r]

\* SignCertificate or GetCACertificate.
Begin(p) ==
    /\ pc[p] = "idle"
    /\ Goto(p, "ensure")
    /\ result' = [result EXCEPT ![p] = "none"]
    /\ UNCHANGED <<appRole, token, got, lag>>

\* ensureValidToken.  Without AppRole credentials the token is trusted.
EnsureValidToken(p) ==
    /\ pc[p] = "ensure"
    /\ \/ ~appRole /\ Goto(p, "request")
       \/ appRole /\ token = NoToken /\ Goto(p, "login")
       \/ appRole /\ token # NoToken /\ Goto(p, "lookup")
    /\ UNCHANGED <<appRole, token, got, lag, result>>

\* Mutant of Expiring: a token is used until its last minute.
ExpiringAtLast(t) == t.ttl < 1

Expiring(t) == t.ttl < Window

\* LookupSelf.
LookupSelf(p) ==
    /\ pc[p] = "lookup"
    /\ \/ /\ ~Valid(token) \/ MayFail("lookup")
          /\ Goto(p, "login")
       \/ /\ Valid(token)
          /\ \/ Expiring(token) /\ Goto(p, "renew")
             \/ ~Expiring(token) /\ Goto(p, "request")
             \/ MayFail("ttl") /\ Goto(p, "renew")
    /\ UNCHANGED <<appRole, token, got, lag, result>>

\* RenewSelf.
RenewSelf(p) ==
    /\ pc[p] = "renew"
    /\ \/ /\ Valid(token)
          /\ token' = [token EXCEPT !.ttl = Lease(token.life)]
          /\ Goto(p, "request")
       \/ /\ ~Valid(token) \/ MayFail("renew")
          /\ Goto(p, "login")
          /\ UNCHANGED token
    /\ UNCHANGED <<appRole, got, lag, result>>

\* loginAppRole, up to the answer of Vault.
LoginAppRole(p) ==
    /\ pc[p] = "login"
    /\ \/ /\ got' = [got EXCEPT ![p] = [ttl |-> Lease(MaxTTL), life |-> MaxTTL]]
          /\ Goto(p, "set_token")
          /\ UNCHANGED <<lag, result>>
       \/ /\ MayFail("login")
          /\ Return(p, "failed")
          /\ UNCHANGED got
    /\ UNCHANGED <<appRole, token>>

\* Mutant of SetToken: the client keeps the token it has.
SetTokenForgets(p) ==
    /\ pc[p] = "set_token"
    /\ got' = [got EXCEPT ![p] = NoToken]
    /\ Goto(p, "request")
    /\ UNCHANGED <<appRole, token, lag, result>>

\* The answer arrives, in the order of the answers and not of the logins.
SetToken(p) ==
    /\ pc[p] = "set_token"
    /\ token' = got[p]
    /\ got' = [got EXCEPT ![p] = NoToken]
    /\ Goto(p, "request")
    /\ UNCHANGED <<appRole, lag, result>>

\* The request proper, with the token the client has now.
Request(p) ==
    /\ pc[p] = "request"
    /\ \/ Valid(token) /\ Return(p, "ok")
       \/ ~Valid(token) /\ Return(p, "denied")
       \/ MayFail("request") /\ Return(p, "failed")
    /\ UNCHANGED <<appRole, token, got>>

Step(p) ==
    \/ EnsureValidToken(p) \/ LookupSelf(p) \/ RenewSelf(p)
    \/ LoginAppRole(p) \/ SetToken(p) \/ Request(p)

Next ==
    \/ Minute
    \/ \E p \in Callers : Begin(p) \/ Step(p)

Spec == Init /\ [][Next]_vars
-----------------------------------------------------------------------------
(* Properties.                                                             *)

\* The variables hold values of their types.
TypeOK ==
    /\ appRole \in BOOLEAN
    /\ token \in Tokens \cup {NoToken}
    /\ pc \in [Callers -> Control]
    /\ got \in [Callers -> Tokens \cup {NoToken}]
    /\ lag \in [Callers -> 0 .. MaxLag]
    /\ result \in [Callers -> Results]

\* "Ensure we have a valid token before making the request" (vault.go:43): at
\* the time of a request the shared token has run out only if its maximum
\* lifetime is over, never because nobody renewed it, and never because a
\* login of another call replaced it.
NeverLapses ==
    appRole =>
        \A p \in Callers : pc[p] = "request" =>
            /\ token # NoToken
            /\ token.ttl = 0 => token.life = 0
-----------------------------------------------------------------------------
(* The inductive invariant of VaultSignerProofs.tla.                       *)

\* A call is over before the token it has checked runs out, and before one
\* that was issued during another call does.
CallsPrompt == MaxLag < Window /\ 2 * MaxLag < TokenTTL

\* The token lasts for n more minutes, or is as long-lived as Vault allows.
Lasts(t, n) == t # NoToken /\ (t.ttl > n \/ t.ttl = t.life)

\* Whoever has passed the check can finish its call with the shared token.
RequestsCovered ==
    appRole =>
        \A p \in Callers : pc[p] = "request" => Lasts(token, MaxLag - lag[p])

\* A token in the answer to a login is no older than the call.
LoginsFresh ==
    \A p \in Callers :
        IF pc[p] = "set_token" THEN Lasts(got[p], TokenTTL - lag[p] - 1)
                               ELSE got[p] = NoToken

IInv ==
    /\ TypeOK
    /\ RequestsCovered
    /\ LoginsFresh
=============================================================================
