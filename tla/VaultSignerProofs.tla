------------------------- MODULE VaultSignerProofs -------------------------
(***************************************************************************)
(* Whatever the callers, the times and the faults, a request of the Vault  *)
(* signer meets a token that has run out only when its maximum lifetime is *)
(* over, provided that the calls are short against the renewal window.     *)
(***************************************************************************)
EXTENDS VaultSigner, TLAPS

\* A token is never Vault's answer that there is none, and keeps its type.
LEMMA OlderType ==
    ASSUME NEW t \in Tokens \cup {NoToken}
    PROVE  /\ Older(t) \in Tokens \cup {NoToken}
           /\ t = NoToken => Older(t) = NoToken
           /\ t # NoToken =>
                /\ Older(t) \in Tokens
                /\ Older(t) # NoToken
                /\ Older(t).ttl = Sooner(t.ttl)
                /\ Older(t).life = Sooner(t.life)
<1>1. CASE t = NoToken
  BY <1>1 DEF Older
<1>2. CASE t # NoToken
  <2>1. t \in Tokens /\ Older(t) = [ttl |-> Sooner(t.ttl), life |-> Sooner(t.life)]
    BY <1>2 DEF Older
  <2>2. t.ttl \in 0 .. TokenTTL /\ t.life \in 0 .. MaxTTL
    BY <2>1 DEF Tokens
  <2>3. Sooner(t.ttl) \in 0 .. TokenTTL /\ Sooner(t.life) \in 0 .. MaxTTL
    BY <2>2, TimesAssumption DEF Sooner
  <2>4. Older(t) \in Tokens
    BY <2>1, <2>3 DEF Tokens
  <2> QED BY <1>2, <2>1, <2>4, NoTokenAssumption
<1> QED BY <1>1, <1>2

\* One minute takes one minute from what a token lasts.
LEMMA OlderLasts ==
    ASSUME NEW t \in Tokens \cup {NoToken}, NEW n \in Int, Lasts(t, n), n >= 1
    PROVE  Lasts(Older(t), n - 1)
<1>1. t \in Tokens /\ t # NoToken
  BY DEF Lasts
<1>2. t.ttl \in Nat /\ t.life \in Nat
  BY <1>1, TimesAssumption DEF Tokens
<1>3. t.ttl > n \/ t.ttl = t.life
  BY DEF Lasts
<1> QED BY <1>1, <1>2, <1>3, OlderType DEF Lasts, Sooner

\* What Vault issues or renews is a token that lasts its time to live, or as
\* long as Vault allows.
LEMMA IssuedLasts ==
    ASSUME NEW life \in 0 .. MaxTTL
    PROVE  LET t == [ttl |-> Lease(life), life |-> life]
           IN  /\ t \in Tokens
               /\ t # NoToken
               /\ \A n \in Int : n < TokenTTL => Lasts(t, n)
<1> DEFINE t == [ttl |-> Lease(life), life |-> life]
<1>1. Lease(life) \in 0 .. TokenTTL
  BY TimesAssumption DEF Lease
<1>2. t \in Tokens
  BY <1>1 DEF Tokens
<1>3. t # NoToken
  BY <1>2, NoTokenAssumption
<1>4. ASSUME NEW n \in Int, n < TokenTTL
      PROVE  Lasts(t, n)
  <2>1. Lease(life) > n \/ Lease(life) = life
    BY <1>4, TimesAssumption DEF Lease
  <2> QED BY <1>3, <2>1 DEF Lasts
<1> QED BY <1>2, <1>3, <1>4

\* The variables keep their types: TypeOK of VaultSigner.tla.
LEMMA TypeStep == TypeOK /\ [Next]_vars => TypeOK'
<1> SUFFICES ASSUME TypeOK, [Next]_vars
             PROVE  TypeOK'
  OBVIOUS
<1>1. CASE Minute
  <2>1. token' \in Tokens \cup {NoToken}
    BY <1>1, OlderType DEF TypeOK, Minute
  <2>2. got' \in [Callers -> Tokens \cup {NoToken}]
    BY <1>1, OlderType DEF TypeOK, Minute
  <2>3. lag' \in [Callers -> 0 .. MaxLag]
    BY <1>1, TimesAssumption DEF TypeOK, Minute
  <2> QED BY <1>1, <2>1, <2>2, <2>3 DEF TypeOK, Minute
<1>2. ASSUME NEW p \in Callers,
             Begin(p) \/ EnsureValidToken(p) \/ LookupSelf(p)
      PROVE  TypeOK'
  <2>1. pc' \in [Callers -> Control]
    BY <1>2, Zenon DEF TypeOK, Begin, EnsureValidToken, LookupSelf, Goto, Control
  <2>2. result' \in [Callers -> Results]
    BY <1>2 DEF TypeOK, Begin, EnsureValidToken, LookupSelf, Results
  <2> QED BY <1>2, <2>1, <2>2 DEF TypeOK, Begin, EnsureValidToken, LookupSelf
<1>3. ASSUME NEW p \in Callers, RenewSelf(p)
      PROVE  TypeOK'
  <2>1. pc' \in [Callers -> Control]
    BY <1>3 DEF TypeOK, RenewSelf, Goto, Control
  <2>2. token' \in Tokens \cup {NoToken}
    <3>1. CASE UNCHANGED token
      BY <3>1 DEF TypeOK
    <3>2. CASE /\ Valid(token)
               /\ token' = [token EXCEPT !.ttl = Lease(token.life)]
      <4>1. token \in Tokens
        BY <3>2 DEF TypeOK, Valid
      <4>2. /\ token.life \in 0 .. MaxTTL
            /\ token' = [ttl |-> Lease(token.life), life |-> token.life]
        BY <3>2, <4>1 DEF Tokens
      <4> QED BY <4>2, IssuedLasts
    <3> QED BY <1>3, <3>1, <3>2 DEF RenewSelf
  <2> QED BY <1>3, <2>1, <2>2 DEF TypeOK, RenewSelf
<1>4. ASSUME NEW p \in Callers, LoginAppRole(p)
      PROVE  TypeOK'
  <2>1. [ttl |-> Lease(MaxTTL), life |-> MaxTTL] \in Tokens
    BY IssuedLasts, TimesAssumption
  <2>2. got' \in [Callers -> Tokens \cup {NoToken}]
    BY <1>4, <2>1 DEF TypeOK, LoginAppRole
  <2>3. pc' \in [Callers -> Control] /\ result' \in [Callers -> Results]
    BY <1>4 DEF TypeOK, LoginAppRole, Return, Goto, Control, Results
  <2>4. lag' \in [Callers -> 0 .. MaxLag]
    BY <1>4, TimesAssumption DEF TypeOK, LoginAppRole, Return
  <2> QED BY <1>4, <2>2, <2>3, <2>4 DEF TypeOK, LoginAppRole
<1>5. ASSUME NEW p \in Callers, SetToken(p)
      PROVE  TypeOK'
  BY <1>5 DEF TypeOK, SetToken, Goto, Control
<1>6. ASSUME NEW p \in Callers, Request(p)
      PROVE  TypeOK'
  BY <1>6, TimesAssumption DEF TypeOK, Request, Return, Goto, Control, Results
<1>7. CASE UNCHANGED vars
  BY <1>7 DEF TypeOK, vars, call
<1> QED BY <1>1, <1>2, <1>3, <1>4, <1>5, <1>6, <1>7 DEF Next, Step

\* TypeOK of VaultSigner.tla, for every value of the constants: a token the
\* client holds is one that Vault can have issued (vault.go).
THEOREM TypeCorrect == Spec => []TypeOK
<1>1. Init => TypeOK
  BY TimesAssumption DEF Init, TypeOK, Control, Results
<1> QED BY <1>1, TypeStep, PTL DEF Spec
-----------------------------------------------------------------------------
LEMMA InvInit == Init => IInv
<1> SUFFICES ASSUME Init PROVE IInv
  OBVIOUS
<1>1. TypeOK
  BY TimesAssumption DEF Init, TypeOK, Control, Results
<1> QED BY <1>1 DEF Init, IInv, RequestsCovered, LoginsFresh

\* The numbers of CallsPrompt.
LEMMA Prompt ==
    ASSUME CallsPrompt
    PROVE  /\ MaxLag \in Nat /\ Window \in Nat /\ TokenTTL \in Nat
           /\ MaxLag < Window /\ MaxLag < TokenTTL - MaxLag
BY TimesAssumption DEF CallsPrompt

\* A minute makes every token older and every call longer.
LEMMA MinuteStep ==
    ASSUME IInv, CallsPrompt, Minute
    PROVE  RequestsCovered' /\ LoginsFresh'
<1>1. TypeOK /\ RequestsCovered /\ LoginsFresh
  BY DEF IInv
<1>2. ASSUME appRole', NEW p \in Callers, pc'[p] = "request"
      PROVE  Lasts(token', MaxLag - lag'[p])
  <2>1. pc[p] = "request" /\ appRole /\ lag[p] < MaxLag /\ lag'[p] = lag[p] + 1
    BY <1>1, <1>2 DEF Minute, TypeOK
  <2>2. Lasts(token, MaxLag - lag[p])
    BY <1>1, <2>1 DEF RequestsCovered
  <2>3. MaxLag - lag[p] \in Int /\ MaxLag - lag[p] >= 1
        /\ (MaxLag - lag[p]) - 1 = MaxLag - lag'[p]
    BY <1>1, <2>1, Prompt DEF TypeOK
  <2>4. token \in Tokens \cup {NoToken} /\ token' = Older(token)
    BY <1>1 DEF TypeOK, Minute
  <2> QED BY <2>2, <2>3, <2>4, OlderLasts
<1>3. ASSUME NEW p \in Callers, pc'[p] = "set_token"
      PROVE  Lasts(got'[p], TokenTTL - lag'[p] - 1)
  <2>1. pc[p] = "set_token" /\ lag[p] < MaxLag /\ lag'[p] = lag[p] + 1
    BY <1>1, <1>3 DEF Minute, TypeOK
  <2>2. Lasts(got[p], TokenTTL - lag[p] - 1)
    BY <1>1, <2>1 DEF LoginsFresh
  <2>3. lag[p] \in Nat
    BY <1>1, Prompt DEF TypeOK
  <2>4. TokenTTL - lag[p] - 1 \in Int /\ TokenTTL - lag[p] - 1 >= 1
        /\ (TokenTTL - lag[p] - 1) - 1 = TokenTTL - lag'[p] - 1
    BY <2>1, <2>3, Prompt
  <2>5. got[p] \in Tokens \cup {NoToken} /\ got'[p] = Older(got[p])
    BY <1>1 DEF TypeOK, Minute
  <2> QED BY <2>2, <2>4, <2>5, OlderLasts
<1>4. ASSUME NEW p \in Callers, pc'[p] # "set_token"
      PROVE  got'[p] = NoToken
  BY <1>1, <1>4, OlderType DEF Minute, LoginsFresh, TypeOK
<1> QED BY <1>2, <1>3, <1>4, Zenon DEF RequestsCovered, LoginsFresh

\* A step of p that leaves the token alone, and after which p is not about to
\* make its request or to set a token, keeps what is known of the others.
LEMMA QuietStep ==
    ASSUME IInv, NEW p \in Callers, NEW l \in Control,
           l # "request", l # "set_token", pc[p] # "set_token",
           pc' = [pc EXCEPT ![p] = l], UNCHANGED <<appRole, token, got>>,
           \A q \in Callers \ {p} : lag'[q] = lag[q]
    PROVE  RequestsCovered' /\ LoginsFresh'
BY DEF IInv, TypeOK, RequestsCovered, LoginsFresh

\* A check passed, or skipped for want of AppRole credentials.
LEMMA CheckedStep ==
    ASSUME IInv, NEW p \in Callers, pc[p] # "set_token",
           appRole => Lasts(token, MaxLag - lag[p]),
           pc' = [pc EXCEPT ![p] = "request"], UNCHANGED <<appRole, token, got, lag>>
    PROVE  RequestsCovered' /\ LoginsFresh'
BY DEF IInv, TypeOK, RequestsCovered, LoginsFresh

\* A token just issued covers every call, whoever put it into the client.
LEMMA RenewedStep ==
    ASSUME IInv, CallsPrompt, NEW p \in Callers,
           \A q \in Callers : Lasts(token', MaxLag - lag[q]),
           pc' = [pc EXCEPT ![p] = "request"], UNCHANGED <<appRole, lag>>,
           got' = [got EXCEPT ![p] = NoToken]
    PROVE  RequestsCovered' /\ LoginsFresh'
BY DEF IInv, TypeOK, RequestsCovered, LoginsFresh

LEMMA CallStep ==
    ASSUME IInv, CallsPrompt, NEW p \in Callers, Begin(p) \/ Step(p)
    PROVE  RequestsCovered' /\ LoginsFresh'
<1>1. TypeOK /\ RequestsCovered /\ LoginsFresh
  BY DEF IInv
<1>2. MaxLag - lag[p] \in Int /\ lag[p] \in 0 .. MaxLag
  BY <1>1, Prompt DEF TypeOK
<1>3. CASE Begin(p)
  BY <1>3, QuietStep DEF Begin, Goto, Control
<1>4. CASE EnsureValidToken(p)
  <2>1. CASE appRole
    BY <1>4, <2>1, QuietStep DEF EnsureValidToken, Goto, Control
  <2>2. CASE ~appRole
    BY <1>4, <2>2, CheckedStep DEF EnsureValidToken, Goto
  <2> QED BY <2>1, <2>2
<1>5. CASE LookupSelf(p)
  <2>1. CASE Goto(p, "request") /\ Valid(token) /\ ~Expiring(token)
    <3>1. token # NoToken /\ ~(token.ttl < Window) /\ token \in Tokens
      BY <1>1, <2>1 DEF Valid, Expiring, TypeOK
    <3>2. token.ttl > MaxLag - lag[p]
      BY <1>2, <3>1, Prompt DEF Tokens
    <3>3. Lasts(token, MaxLag - lag[p])
      BY <3>1, <3>2 DEF Lasts
    <3> QED BY <1>5, <2>1, <3>3, CheckedStep DEF LookupSelf, Goto
  <2>2. CASE Goto(p, "login") \/ Goto(p, "renew")
    BY <1>5, <2>2, QuietStep DEF LookupSelf, Goto, Control
  <2> QED BY <1>5, <2>1, <2>2 DEF LookupSelf
<1>6. CASE RenewSelf(p)
  <2>1. CASE UNCHANGED token /\ Goto(p, "login")
    BY <1>6, <2>1, QuietStep DEF RenewSelf, Goto, Control
  <2>2. CASE /\ Valid(token) /\ Goto(p, "request")
             /\ token' = [token EXCEPT !.ttl = Lease(token.life)]
    <3>1. token \in Tokens
      BY <1>1, <2>2 DEF TypeOK, Valid
    <3>2. /\ token.life \in 0 .. MaxTTL
          /\ token' = [ttl |-> Lease(token.life), life |-> token.life]
      BY <2>2, <3>1 DEF Tokens
    <3>3. \A n \in Int : n < TokenTTL => Lasts(token', n)
      BY <3>2, IssuedLasts
    <3>4. \A q \in Callers : Lasts(token', MaxLag - lag[q])
      BY <1>1, <3>3, Prompt DEF TypeOK
    <3>5. got[p] = NoToken /\ pc[p] # "set_token"
      BY <1>1, <1>6 DEF LoginsFresh, RenewSelf
    <3>6. got' = [got EXCEPT ![p] = NoToken]
      BY <1>1, <1>6, <3>5 DEF RenewSelf, TypeOK
    <3> QED BY <1>6, <2>2, <3>4, <3>6, RenewedStep DEF RenewSelf, Goto
  <2> QED BY <1>6, <2>1, <2>2 DEF RenewSelf
<1>7. CASE LoginAppRole(p)
  <2>1. CASE Return(p, "failed") /\ UNCHANGED got
    BY <1>7, <2>1, <1>1, QuietStep DEF LoginAppRole, Return, Goto, Control, TypeOK
  <2>2. CASE /\ got' = [got EXCEPT ![p] = [ttl |-> Lease(MaxTTL), life |-> MaxTTL]]
             /\ Goto(p, "set_token") /\ UNCHANGED <<lag, result>>
    <3>1. \A n \in Int : n < TokenTTL => Lasts([ttl |-> Lease(MaxTTL), life |-> MaxTTL], n)
      BY IssuedLasts, TimesAssumption
    <3>2. TokenTTL - lag[p] - 1 \in Int /\ TokenTTL - lag[p] - 1 < TokenTTL
      BY <1>2, Prompt
    <3>3. got'[p] = [ttl |-> Lease(MaxTTL), life |-> MaxTTL]
      BY <1>1, <2>2 DEF TypeOK
    <3>4. Lasts(got'[p], TokenTTL - lag'[p] - 1)
      BY <2>2, <3>1, <3>2, <3>3
    <3>5. \A q \in Callers \ {p} : got'[q] = got[q] /\ pc'[q] = pc[q] /\ lag'[q] = lag[q]
      BY <1>1, <2>2 DEF TypeOK, Goto
    <3>6. pc'[p] = "set_token" /\ token' = token /\ appRole' = appRole
      BY <1>1, <1>7, <2>2 DEF TypeOK, Goto, LoginAppRole
    <3> QED BY <1>1, <3>4, <3>5, <3>6 DEF RequestsCovered, LoginsFresh
  <2> QED BY <1>7, <2>1, <2>2 DEF LoginAppRole
<1>8. CASE SetToken(p)
  <2>1. Lasts(got[p], TokenTTL - lag[p] - 1) /\ got[p] \in Tokens
    BY <1>1, <1>8 DEF LoginsFresh, SetToken, TypeOK, Lasts
  <2>4. got[p].ttl \in Nat /\ got[p].life \in Nat /\ got[p] # NoToken
    BY <2>1, TimesAssumption DEF Tokens, Lasts
  <2>5. got[p].ttl > TokenTTL - lag[p] - 1 \/ got[p].ttl = got[p].life
    BY <2>1 DEF Lasts
  <2>6. ASSUME NEW q \in Callers
        PROVE  got[p].ttl > MaxLag - lag[q] \/ got[p].ttl = got[p].life
    <3>1. \A m, n \in 0 .. MaxLag, t \in Nat :
            t > TokenTTL - n - 1 => t > MaxLag - m
      BY Prompt
    <3>2. lag[q] \in 0 .. MaxLag
      BY <1>1 DEF TypeOK
    <3> QED BY <1>2, <2>4, <2>5, <3>1, <3>2
  <2>7. \A q \in Callers : Lasts(token', MaxLag - lag[q])
    BY <1>8, <2>4, <2>6 DEF Lasts, SetToken
  <2> QED BY <1>8, <2>7, RenewedStep DEF SetToken, Goto
<1>9. CASE Request(p)
  BY <1>9, <1>1, QuietStep DEF Request, Return, Goto, Control, TypeOK
<1> QED BY <1>3, <1>4, <1>5, <1>6, <1>7, <1>8, <1>9 DEF Step

\* The inductive invariant of VaultSigner.tla: whoever has passed the check
\* holds a token that outlasts its call, whatever the other callers do to the
\* token meanwhile (ensureValidToken and SetToken in vault.go).
THEOREM Invariance == ASSUME CallsPrompt PROVE Spec => []IInv
<1>1. IInv /\ [Next]_vars => IInv'
  <2> SUFFICES ASSUME IInv, [Next]_vars PROVE IInv'
    OBVIOUS
  <2>1. TypeOK'
    BY TypeStep DEF IInv
  <2>2. CASE Minute
    BY <2>1, <2>2, MinuteStep DEF IInv
  <2>3. CASE \E p \in Callers : Begin(p) \/ Step(p)
    BY <2>1, <2>3, CallStep DEF IInv
  <2>4. CASE UNCHANGED vars
    BY <2>1, <2>4 DEF IInv, RequestsCovered, LoginsFresh, vars, call
  <2> QED BY <2>2, <2>3, <2>4 DEF Next
<1> QED BY <1>1, InvInit, PTL DEF Spec

\* NeverLapses of VaultSigner.tla: a request meets a token that has run out
\* only when its maximum lifetime is over (vault.go:43).
THEOREM TokenNeverLapses == ASSUME CallsPrompt PROVE Spec => []NeverLapses
<1>1. ASSUME IInv PROVE NeverLapses
  <2> SUFFICES ASSUME appRole, NEW p \in Callers, pc[p] = "request"
               PROVE  token # NoToken /\ (token.ttl = 0 => token.life = 0)
    BY DEF NeverLapses
  <2>1. Lasts(token, MaxLag - lag[p])
    BY <1>1 DEF IInv, RequestsCovered
  <2>2. lag[p] \in 0 .. MaxLag /\ MaxLag - lag[p] \in Nat
    BY <1>1, TimesAssumption DEF IInv, TypeOK
  <2> QED BY <2>1, <2>2 DEF Lasts
<1>2. IInv => NeverLapses
  BY <1>1
<1> QED BY <1>2, Invariance, PTL
=============================================================================
