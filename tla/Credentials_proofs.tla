------------------------- MODULE Credentials_proofs -------------------------
(***************************************************************************)
(* What is proved of Credentials for every configuration, and every length *)
(* of a second in clock ticks.                                             *)
(***************************************************************************)
EXTENDS Credentials, TLAPS

-----------------------------------------------------------------------------
(* Whole seconds.                                                          *)

\* A product of naturals is ordered as its factor is.
LEMMA TimesLess ==
    ASSUME NEW n \in Nat \ {0}, NEW a \in Int, NEW b \in Int, n * a < n * b
    PROVE  a < b
<1> SUFFICES ASSUME b <= a PROVE FALSE
  OBVIOUS
<1>1. n * (a - b) >= 0
  <2>1. a - b \in Nat
    OBVIOUS
  <2> QED
    BY <2>1
<1>2. n * (a - b) = n * a - n * b
  OBVIOUS
<1>3. n * a \in Int /\ n * b \in Int
  OBVIOUS
<1> QED
  BY <1>1, <1>2, <1>3

\* Truncation to whole seconds.
LEMMA Truncation ==
    ASSUME NEW n \in Nat \ {0}, NEW a \in Nat
    PROVE  /\ a \div n \in Nat
           /\ n * (a \div n) <= a
           /\ a < n * (a \div n) + n
BY Z3

\* Less than k seconds later, the truncated clock is at most k seconds ahead.
LEMMA SecondsLater ==
    ASSUME NEW n \in Nat \ {0}, NEW a \in Nat, NEW b \in Nat, NEW k \in Nat, b < a + k * n
    PROVE  b \div n <= (a \div n) + k
<1> DEFINE p == a \div n
           q == b \div n
<1>1. p \in Nat /\ q \in Nat /\ n * q <= b /\ a < n * p + n
  BY Truncation
<1> HIDE DEF p, q
<1>2. n * (p + k + 1) = n * p + k * n + n
  BY <1>1
<1>3. n * p \in Nat /\ k * n \in Nat /\ n * q \in Nat
  BY <1>1
<1>4. n * q < n * (p + k + 1)
  BY <1>1, <1>2, <1>3
<1>5. q < p + k + 1
  BY <1>1, <1>4, TimesLess
<1> QED
  BY <1>1, <1>5 DEF p, q

\* Truncation keeps the order.
LEMMA SecondsInOrder ==
    ASSUME NEW n \in Nat \ {0}, NEW a \in Nat, NEW b \in Nat, a <= b
    PROVE  a \div n <= b \div n
<1> DEFINE p == a \div n
           q == b \div n
<1>1. p \in Nat /\ q \in Nat /\ n * p <= a /\ b < n * q + n
  BY Truncation
<1> HIDE DEF p, q
<1>2. n * (q + 1) = n * q + n /\ n * p \in Nat /\ n * q \in Nat
  BY <1>1
<1>3. n * p < n * (q + 1)
  BY <1>1, <1>2
<1>4. p < q + 1
  BY <1>1, <1>3, TimesLess
<1> QED
  BY <1>1, <1>4 DEF p, q

-----------------------------------------------------------------------------
(* The inductive invariant.                                                *)

\* A serving process has a configuration that validate let through.
ServesValidated == phase = "serving" => Validate(config)

\* The clocks: it is not earlier than the tenth second, and the reaper is not
\* late by more than its period.
ClockOnTime ==
    /\ 10 * SecondMs <= now
    /\ lastReap <= now /\ now <= lastReap + ReapEvery

\* What is known of a running session: it was created at some instant c, its
\* expiry and its token count from there, and the last round of the reaper
\* came before the expiry.
CreatedAt(s, c) ==
    /\ 10 * SecondMs <= c /\ c <= now
    /\ expiresAt[s] = c + config.sessionTtl * SecondMs
    /\ lastReap < expiresAt[s]
    /\ ~config.demo => /\ token[s].from <= (c \div SecondMs) - 10
                       /\ token[s].until = (c \div SecondMs) + config.tokenTtl

RunningAccounted ==
    \A s \in Running : phase = "serving" /\ \E c \in Nat : CreatedAt(s, c)

CredInv ==
    /\ CredTypeOK
    /\ ServesValidated
    /\ ClockOnTime
    /\ RunningAccounted
    /\ GrantBuysSession

\* A validated configuration gives both builders arguments they accept.
LEMMA ValidatedBuilds ==
    ASSUME NEW c \in Config, Validate(c)
    PROVE  ~BuildFails(c)
<1>1. CASE c.demo \/ c.provider = "livekit"
  BY <1>1 DEF BuildFails
<1>2. CASE ~c.demo /\ c.provider # "livekit"
  <2>1. c.agoraSound
    BY <1>2 DEF Validate
  <2>2. ChannelLength(c) \in 1 .. 63
    BY DEF Validate, PrefixFits, ChannelLength, Config
  <2>3. c.clientUid # 0 /\ c.bridgeUid # 0
    BY DEF Validate
  <2>4. c.tokenTtl # 0 /\ ~(c.tokenTtl > 86400)
    BY DEF Validate, TokenCovers, Config
  <2>5. ASSUME NEW uid, uid # 0 PROVE ~AgoraRefuses(c, uid)
    BY <2>1, <2>2, <2>4, <2>5 DEF AgoraRefuses
  <2> QED
    BY <2>3, <2>5, Zenon DEF BuildFails
<1> QED
  BY <1>1, <1>2

\* A token is good from ten seconds before its issue, and for tokenTtl.
LEMMA IssuedNow ==
    ASSUME CredTypeOK, 10 * SecondMs <= now
    PROVE  /\ Credential(config) \in Token
           /\ ~config.demo => /\ Credential(config).from <= Second - 10
                              /\ Credential(config).until = Second + config.tokenTtl
<1>1. Second \in Nat
  BY Truncation, SecondAssumption DEF Second, CredTypeOK
<1>2. config.tokenTtl \in Nat
  BY DEF CredTypeOK, Config
<1>3. Second >= 10
  <2>1. 10 * SecondMs \in Nat /\ now \in Nat
    BY SecondAssumption DEF CredTypeOK
  <2>2. (10 * SecondMs) \div SecondMs = 10
    BY SecondAssumption, Z3
  <2> QED
    BY <2>1, <2>2, SecondsInOrder, SecondAssumption DEF Second
<1> HIDE DEF Second
<1>4. BuildRtcToken(config) \in Token /\ BuildLivekitToken(config) \in Token
  BY <1>1, <1>2 DEF BuildRtcToken, BuildLivekitToken, Token
<1>5. CASE config.demo
  BY <1>5 DEF Credential, NoToken, Token
<1>6. CASE ~config.demo /\ config.provider = "livekit"
  <2>1. Credential(config) = BuildLivekitToken(config)
    BY <1>6 DEF Credential
  <2> QED
    BY <1>1, <1>3, <1>4, <2>1 DEF BuildLivekitToken
<1>7. CASE ~config.demo /\ config.provider # "livekit"
  <2>1. Credential(config) = BuildRtcToken(config)
    BY <1>7 DEF Credential
  <2> QED
    BY <1>1, <1>3, <1>4, <2>1 DEF BuildRtcToken
<1> QED
  BY <1>5, <1>6, <1>7

LEMMA CredInitInv == EnvironmentsAssumption /\ CredInit => CredInv
<1> SUFFICES ASSUME CredInit PROVE CredInv
  OBVIOUS
<1>1. now \in Nat /\ 10 * SecondMs <= now
  BY SecondAssumption DEF CredInit
<1>2. CredTypeOK
  BY <1>1, EnvironmentsAssumption DEF CredInit, CredTypeOK, NoToken, Token
<1>3. ClockOnTime
  BY <1>1, SecondAssumption DEF CredInit, ClockOnTime, ReapEvery
<1>4. ServesValidated /\ RunningAccounted /\ GrantBuysSession
  BY DEF CredInit, ServesValidated, RunningAccounted, Running, GrantBuysSession
<1> QED
  BY <1>2, <1>3, <1>4 DEF CredInv

\* Every step keeps the invariant.
LEMMA CredInvStep == CredInv /\ [CredNext]_credVars => CredInv'
<1> SUFFICES ASSUME CredInv, [CredNext]_credVars PROVE CredInv'
  OBVIOUS
<1> USE DEF CredInv
<1>1. CASE Boot
  <2>1. UNCHANGED <<config, now, lastReap, state, expiresAt, token>>
        /\ (phase' = "serving" => Validate(config)) /\ phase' \in {"serving", "refused"}
    BY <1>1 DEF Boot
  <2>2. Running = {}
    BY <1>1 DEF Boot, RunningAccounted
  <2>3. CredTypeOK' /\ ServesValidated' /\ GrantBuysSession'
    BY <2>1 DEF CredTypeOK, ServesValidated, GrantBuysSession
  <2>4. ClockOnTime' /\ RunningAccounted'
    BY <2>1, <2>2 DEF ClockOnTime, RunningAccounted, Running
  <2> QED
    BY <2>3, <2>4
<1>2. ASSUME NEW s \in Sessions, CreateSession(s) PROVE CredInv'
  <2>1. ~BuildFails(config)
    BY <1>2, ValidatedBuilds DEF CreateSession, ServesValidated, CredTypeOK
  <2>2. /\ phase = "serving"
        /\ state' = [state EXCEPT ![s] = "running"]
        /\ expiresAt' = [expiresAt EXCEPT ![s] = now + config.sessionTtl * SecondMs]
        /\ token' = [token EXCEPT ![s] = Credential(config)]
        /\ UNCHANGED <<config, phase, now, lastReap>>
    BY <1>2, <2>1 DEF CreateSession
  <2>3. now \in Nat /\ lastReap \in Nat /\ config.sessionTtl \in Nat
        /\ config.sessionTtl * SecondMs \in Nat
    BY SecondAssumption DEF CredTypeOK, Config
  <2>4. CredTypeOK'
    BY <2>2, <2>3, IssuedNow DEF CredTypeOK, ClockOnTime
  <2>5. ServesValidated' /\ ClockOnTime' /\ GrantBuysSession'
    BY <2>2 DEF ServesValidated, ClockOnTime, GrantBuysSession, CredTypeOK
  <2>6. ASSUME NEW c \in Nat, c = now PROVE CreatedAt(s, c)'
    <3>1. expiresAt'[s] = now + config.sessionTtl * SecondMs /\ token'[s] = Credential(config)
      BY <2>2 DEF CredTypeOK
    <3>2. 10 * SecondMs <= now /\ lastReap <= now
      BY DEF ClockOnTime
    <3>3. lastReap < now + config.sessionTtl * SecondMs
      <4>1. config.sessionTtl >= 1
        BY <2>2, <2>3 DEF ServesValidated, Validate
      <4>2. config.sessionTtl * SecondMs > 0
        BY <2>3, <4>1, SecondAssumption
      <4> QED
        BY <2>3, <3>2, <4>2
    <3>4. ~config.demo => /\ token'[s].from <= (now \div SecondMs) - 10
                          /\ token'[s].until = (now \div SecondMs) + config.tokenTtl
      BY <3>1, <3>2, IssuedNow DEF Second
    <3> QED
      BY <2>2, <2>3, <2>6, <3>1, <3>2, <3>3, <3>4 DEF CreatedAt
  <2>7. ASSUME NEW t \in Running' PROVE \E c \in Nat : CreatedAt(t, c)'
    <3>1. CASE t = s
      BY <2>3, <2>6, <3>1
    <3>2. CASE t # s
      <4>1. t \in Running /\ expiresAt'[t] = expiresAt[t] /\ token'[t] = token[t]
        BY <2>2, <3>2 DEF Running, CredTypeOK
      <4>2. PICK c \in Nat : CreatedAt(t, c)
        BY <4>1 DEF RunningAccounted
      <4>3. CreatedAt(t, c)'
        BY <2>2, <4>1, <4>2 DEF CreatedAt
      <4> QED
        BY <4>3, Zenon
    <3> QED
      BY <3>1, <3>2
  <2> QED
    BY <2>2, <2>4, <2>5, <2>7 DEF RunningAccounted
<1>3. CASE CredTick
  <2>1. now \in Nat /\ now' = now + 1 /\ now' <= lastReap' + ReapEvery /\ phase' = "serving"
        /\ UNCHANGED <<config, phase, lastReap, state, expiresAt, token>>
    BY <1>3, SecondAssumption DEF CredTick, CredTypeOK, ReapEvery
  <2>2. CredTypeOK' /\ ServesValidated' /\ GrantBuysSession'
    BY <2>1 DEF CredTypeOK, ServesValidated, GrantBuysSession
  <2>3. ClockOnTime'
    BY <2>1, SecondAssumption DEF ClockOnTime, CredTypeOK, ReapEvery
  <2>4. ASSUME NEW s \in Running' PROVE \E c \in Nat : CreatedAt(s, c)'
    <3>1. PICK c \in Nat : CreatedAt(s, c)
      BY <2>1 DEF RunningAccounted, Running
    <3>2. CreatedAt(s, c)'
      BY <2>1, <3>1 DEF CreatedAt
    <3> QED
      BY <3>2
  <2> QED
    BY <2>1, <2>2, <2>3, <2>4 DEF RunningAccounted
<1>4. CASE CredReap
  <2>1. now \in Nat /\ lastReap' = now /\ phase' = "serving"
        /\ UNCHANGED <<config, phase, now, expiresAt, token>>
    BY <1>4 DEF CredReap, CredTypeOK
  <2>2. CredTypeOK' /\ ServesValidated' /\ GrantBuysSession'
    BY <1>4, <2>1 DEF CredReap, CredTypeOK, ServesValidated, GrantBuysSession
  <2>3. ClockOnTime'
    BY <2>1, SecondAssumption DEF ClockOnTime, ReapEvery
  <2>4. ASSUME NEW s \in Running' PROVE \E c \in Nat : CreatedAt(s, c)'
    <3>1. s \in Running /\ ~(expiresAt[s] <= now)
      BY <1>4 DEF CredReap, Running
    <3>2. PICK c \in Nat : CreatedAt(s, c)
      BY <3>1 DEF RunningAccounted
    <3>3. expiresAt[s] \in Nat
      BY <3>1 DEF CredTypeOK, Running
    <3>4. CreatedAt(s, c)'
      BY <2>1, <3>1, <3>2, <3>3 DEF CreatedAt
    <3> QED
      BY <3>4
  <2> QED
    BY <2>1, <2>2, <2>3, <2>4 DEF RunningAccounted
<1>5. CASE UNCHANGED credVars
  BY <1>5 DEF credVars, CredTypeOK, ServesValidated, ClockOnTime, ReapEvery,
     RunningAccounted, Running, CreatedAt, GrantBuysSession
<1> QED
  BY <1>1, <1>2, <1>3, <1>4, <1>5 DEF CredNext

\* The invariant holds of every reachable state.
THEOREM CredInvCorrect == CredSpec => []CredInv
BY CredInitInv, CredInvStep, EnvironmentsAssumption, PTL DEF CredSpec

\* No grant is lost to a token that cannot be built, whatever the configuration
\* that validate let through.
THEOREM GrantsBuySessions == CredSpec => []GrantBuysSession
<1>1. CredInv => GrantBuysSession
  BY DEF CredInv
<1> QED
  BY <1>1, CredInvCorrect, PTL

\* A running session is less than its time to live and a reaper period old.
LEMMA RunningIsYoung ==
    ASSUME CredInv, NEW s \in Running, NEW c \in Nat, CreatedAt(s, c)
    PROVE  now < c + (config.sessionTtl + 15) * SecondMs
<1>1. config.sessionTtl \in Nat /\ lastReap \in Nat /\ now \in Nat
  BY DEF CredInv, CredTypeOK, Config
<1>2. config.sessionTtl * SecondMs \in Nat
  BY <1>1, SecondAssumption
<1>3. (config.sessionTtl + 15) * SecondMs = config.sessionTtl * SecondMs + 15 * SecondMs
  BY <1>1, SecondAssumption
<1>4. now <= lastReap + 15 * SecondMs /\ lastReap < c + config.sessionTtl * SecondMs
  BY DEF CredInv, ClockOnTime, ReapEvery, CreatedAt
<1> QED
  BY <1>1, <1>2, <1>3, <1>4, SecondAssumption

\* The tokens of a session outlast it, on a clock of whole seconds that may be
\* up to ten seconds behind or forty-four ahead.
LEMMA TokensLast == CredInv => TokensCoverSession
<1> SUFFICES ASSUME CredInv, NEW s \in Running, NEW skew \in (-10) .. 44, ~config.demo
             PROVE  token[s].from <= Second + skew /\ Second + skew < token[s].until
  BY DEF TokensCoverSession
<1>1. PICK c \in Nat : CreatedAt(s, c)
  BY DEF CredInv, RunningAccounted
<1> DEFINE issued == c \div SecondMs
<1>2. /\ now \in Nat /\ c <= now
      /\ config.sessionTtl \in Nat /\ config.tokenTtl \in Nat
      /\ config.tokenTtl >= config.sessionTtl + 60
  BY <1>1 DEF CredInv, CredTypeOK, Config, CreatedAt, RunningAccounted, ServesValidated,
     Validate, TokenCovers
<1>3. issued \in Nat /\ Second \in Nat
  BY <1>2, Truncation, SecondAssumption DEF Second
<1>4. issued <= Second
  BY <1>2, SecondsInOrder, SecondAssumption DEF Second
<1>5. Second <= issued + (config.sessionTtl + 15)
  BY <1>1, <1>2, RunningIsYoung, SecondsLater, SecondAssumption DEF Second
<1>6. token[s].from <= issued - 10 /\ token[s].until = issued + config.tokenTtl
  BY <1>1 DEF CreatedAt
<1>7. token[s].from \in Nat
  BY DEF CredInv, CredTypeOK, Running, Token
<1> HIDE DEF issued, Second
<1> QED
  BY <1>2, <1>3, <1>4, <1>5, <1>6, <1>7

\* The RTC service takes the tokens of a session for as long as it runs.
THEOREM TokensCoverSessions == CredSpec => []TokensCoverSession
BY CredInvCorrect, TokensLast, PTL
=============================================================================
