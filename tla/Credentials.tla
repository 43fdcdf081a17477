---------------------------- MODULE Credentials ----------------------------
(***************************************************************************)
(* The configuration of the control plane and the RTC credentials it       *)
(* issues: Config::validate, the part of create_session between paying     *)
(* with a grant and inserting the session, and the two token builders.     *)
(*                                                                         *)
(* create_session consumes the browser grant before it builds the tokens,  *)
(* and answers 500 when a builder refuses; the tokens live on a clock of   *)
(* whole seconds, the sessions on one of milliseconds, and the RTC service *)
(* on a clock of its own.  What validate accepts at start-up decides       *)
(* whether any of that can go wrong later.                                 *)
(***************************************************************************)
EXTENDS Naturals, Integers

CONSTANTS
    Sessions,      \* session ids
    Environments,  \* the configurations the process may be started with
    SecondMs,      \* clock ticks in a second, 1000 in the code
    Horizon        \* bound on the clock, in ticks

\* What Config holds of the settings the credentials depend on.  agoraSound:
\* App ID and certificate pass validate_credential; othersSound: so do the
\* settings no credential depends on (secrets, URLs, origin, capacity, grant
\* lifetime).
Config == [demo : BOOLEAN, provider : {"agora", "livekit", "other"},
           othersSound : BOOLEAN, agoraSound : BOOLEAN, prefixLength : Nat,
           clientUid : Nat, bridgeUid : Nat, tokenTtl : Nat, sessionTtl : Nat]

ASSUME EnvironmentsAssumption == Environments \subseteq Config
ASSUME SecondAssumption == SecondMs \in Nat \ {0}

VARIABLES
    config,     \* the Config of the running process
    phase,      \* "starting", "serving", or "refused": exit(2)
    now,        \* the wall clock
    lastReap,   \* the last tick of the reaper
    state,      \* session -> "unallocated", "running", "failed", "ended"
    expiresAt,  \* Session.expires_at_ms
    token       \* session -> the token of its client, and that of the bridge

credVars == <<config, phase, now, lastReap, state, expiresAt, token>>

ReapEvery == 15 * SecondMs

Second == now \div SecondMs

\* "{prefix}-{uuid}", a dash and 32 hexadecimal digits after the prefix.
ChannelLength(c) == c.prefixLength + 1 + 32

\* Mutant: the prefix may fill what the format leaves free of 64 bytes.
PrefixFitsAll(c) == c.prefixLength \in 1 .. 31

PrefixFits(c) == c.prefixLength \in 1 .. 24

\* Mutant: the token need only be as long-lived as the session.
TokenCoversBarely(c) == c.tokenTtl <= 86400 /\ c.tokenTtl >= c.sessionTtl

TokenCovers(c) == c.tokenTtl <= 86400 /\ c.tokenTtl >= c.sessionTtl + 60

Validate(c) ==
    /\ c.othersSound
    /\ 1 <= c.sessionTtl /\ c.sessionTtl <= 3600
    /\ TokenCovers(c)
    /\ PrefixFits(c)
    /\ c.provider \in {"agora", "livekit"}
    /\ ~c.demo /\ c.provider = "agora" => c.agoraSound
    /\ 0 \notin {c.clientUid, c.bridgeUid} /\ c.clientUid # c.bridgeUid

\* Config::from_env and main: a process with a bad configuration never serves.
Boot ==
    /\ phase = "starting"
    /\ phase' = IF Validate(config) THEN "serving" ELSE "refused"
    /\ UNCHANGED <<config, now, lastReap, state, expiresAt, token>>

-----------------------------------------------------------------------------
(* The token builders.  Of a token only its lifetime is modelled, from when *)
(* and until when the RTC service takes it.                                 *)

Token == [from : Nat, until : Nat]

NoToken == [from |-> 0, until |-> 0]

\* The arguments build_rtc_token_at refuses.
AgoraRefuses(c, uid) ==
    \/ ~c.agoraSound
    \/ ChannelLength(c) \notin 1 .. 63
    \/ uid = 0
    \/ c.tokenTtl = 0 \/ c.tokenTtl > 86400

\* build_rtc_token: the privileges it grants, to join and to publish, end with
\* the token.
BuildRtcToken(c) == [from |-> 0, until |-> Second + c.tokenTtl]

\* build_livekit_token: it is good from ten seconds before its issue.
BuildLivekitToken(c) ==
    [from |-> IF Second > 10 THEN Second - 10 ELSE 0, until |-> Second + c.tokenTtl]

\* The token of each party in a new session, by provider.
Credential(c) ==
    CASE c.demo -> NoToken
      [] ~c.demo /\ c.provider = "livekit" -> BuildLivekitToken(c)
      [] OTHER -> BuildRtcToken(c)

\* create_session answers token_generation_failed.
BuildFails(c) ==
    /\ ~c.demo /\ c.provider # "livekit"
    /\ AgoraRefuses(c, c.clientUid) \/ AgoraRefuses(c, c.bridgeUid)

-----------------------------------------------------------------------------
\* The clock starts anywhere within a second, and not at the epoch itself.
CredInit ==
    /\ config \in Environments
    /\ phase = "starting"
    /\ now \in 10 * SecondMs .. 11 * SecondMs - 1
    /\ lastReap = now
    /\ state = [s \in Sessions |-> "unallocated"]
    /\ expiresAt = [s \in Sessions |-> 0]
    /\ token = [s \in Sessions |-> NoToken]

\* create_session once bridge, capacity and grant are in order.  The grant is
\* spent whether or not the tokens can be built.
CreateSession(s) ==
    /\ phase = "serving"
    /\ state[s] = "unallocated"
    /\ IF BuildFails(config)
       THEN /\ state' = [state EXCEPT ![s] = "failed"]
            /\ UNCHANGED <<expiresAt, token>>
       ELSE /\ state' = [state EXCEPT ![s] = "running"]
            /\ expiresAt' = [expiresAt EXCEPT ![s] = now + config.sessionTtl * SecondMs]
            /\ token' = [token EXCEPT ![s] = Credential(config)]
    /\ UNCHANGED <<config, phase, now, lastReap>>

\* unix_ms() moves on; the reaper is never late.
CredTick ==
    /\ phase = "serving"
    /\ now < Horizon /\ now < lastReap + ReapEvery
    /\ now' = now + 1
    /\ UNCHANGED <<config, phase, lastReap, state, expiresAt, token>>

\* session_reaper ends what has expired.
CredReap ==
    /\ phase = "serving"
    /\ now = lastReap + ReapEvery
    /\ lastReap' = now
    /\ state' = [s \in Sessions |->
                    IF state[s] = "running" /\ expiresAt[s] <= now THEN "ended" ELSE state[s]]
    /\ UNCHANGED <<config, phase, now, expiresAt, token>>

CredNext ==
    \/ Boot
    \/ \E s \in Sessions : CreateSession(s)
    \/ CredTick
    \/ CredReap

CredSpec == CredInit /\ [][CredNext]_credVars

-----------------------------------------------------------------------------
(* Properties.                                                             *)

Running == {s \in Sessions : state[s] = "running"}

\* Every variable stays in its range.
CredTypeOK ==
    /\ config \in Config
    /\ phase \in {"starting", "serving", "refused"}
    /\ now \in Nat /\ lastReap \in Nat
    /\ state \in [Sessions -> {"unallocated", "running", "failed", "ended"}]
    /\ expiresAt \in [Sessions -> Nat]
    /\ token \in [Sessions -> Token]

\* No grant is lost to a token that cannot be built: whatever validate lets
\* through at start-up, neither builder refuses it when a session is paid for.
GrantBuysSession == \A s \in Sessions : state[s] # "failed"

\* The RTC service accepts the tokens of a session from its creation until the
\* reaper has ended it, although the token counts from a truncated second, the
\* session may outstay its expiry by a period of the reaper, and the clock of
\* the service may be up to 10 s behind (LiveKit) or 44 s ahead.
TokensCoverSession ==
    \A s \in Running, skew \in (-10) .. 44 :
        ~config.demo => token[s].from <= Second + skew /\ Second + skew < token[s].until
=============================================================================
