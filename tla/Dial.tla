---------------------------------- MODULE Dial ----------------------------------
(***************************************************************************)
(* How mqtt-tokio reaches its broker: a target taken from a URI, the       *)
(* stages of connect_transport for it, and the two that call it - the      *)
(* event loop's connect_with_backoff, and SmartTransport, which gives a    *)
(* target five seconds and tries plain TCP instead of QUIC.                *)
(*                                                                         *)
(* A delay is a whole number of units (the code's are nanoseconds), zero   *)
(* included; the multiplier, an f64, is a fraction, maybe below one, that  *)
(* is calculated with exactly.                                             *)
(***************************************************************************)
EXTENDS Integers, Sequences

CONSTANTS Uris,          \* [scheme, parts]: what follows the scheme, split at its colons
          Features,      \* of the crate; {"tls", "quic"} by default
          Platform,      \* "unix" or "windows"
          InitialDelay, MaxDelay,              \* of ReconnectPolicy
          MultiplierNum, MultiplierDen,        \* its multiplier, as a fraction
          RetryLimits,   \* values of max_retries, an option: a set of one number or none
          MaxAttempts    \* bound: attempts in one outage

ASSUME DialAssumption == /\ InitialDelay \in Nat /\ MaxDelay \in Nat /\ MaxAttempts \in Nat
                         /\ MultiplierNum \in Nat /\ MultiplierDen \in Nat \ {0}
                         /\ RetryLimits \subseteq SUBSET Nat

VARIABLES
  caller,    \* "loop" or "smart"
  enabled,   \* reconnect.enabled
  limit,     \* reconnect.max_retries
  net,       \* what a TCP port and the TLS or QUIC peer on it do
  kind,      \* of the target
  doing,     \* "begin", "pause", "dial", "fallback", "handshake", "online" or "stopped"
  tries,     \* reconnect_attempt
  stage,     \* what connect_transport has still to do
  pauses,    \* history: the delays before the dials of this outage
  result     \* of from_uri, connect_with_backoff or SmartTransport

options  == <<caller, enabled, limit, kind>>
dialVars == <<options, net, doing, tries, stage, pauses, result>>

Given(condition, k) == IF condition THEN {k} ELSE {}

TargetKinds == {"Tcp", "Unix", "NamedPipe"}
                 \cup Given(Features \cap {"tls", "tokio-tls"} # {}, "Tls")
                 \cup Given(Features \cap {"quic", "transport-quic"} # {}, "Quic")

Nets == [tcp : {"accepts", "refuses", "silent"}, peer : {"public", "private", "silent"}]

-------------------------------------------------------------------------------
(* ClientOptions::from_uri *)

\* split_once(':'): a host with colons of its own leaves no port behind the first.
ParseHostPort(parts) == Len(parts) = 1 \/ (Len(parts) = 2 /\ parts[2] \in 0..65535)

\* The kind of target a URI gives, or none.  The features asked for are not those
\* that compile the transports in: by default, mqtts and quic are refused.
FromUri(uri) ==
  LET address == ParseHostPort(uri.parts)
  IN CASE uri.scheme = "mqtt"  -> Given(address, "Tcp")
       [] uri.scheme = "mqtts" -> Given(address /\ "tokio-tls" \in Features, "Tls")
       [] uri.scheme = "quic"  -> Given(address /\ "transport-quic" \in Features, "Quic")
       [] uri.scheme = "unix"  -> {"Unix"}
       [] uri.scheme = "pipe"  -> {"NamedPipe"}
       [] OTHER                -> {}

-------------------------------------------------------------------------------
(* connect_transport *)

Stages(k) == CASE k = "Tcp"  -> <<"tcp">>
               [] k = "Tls"  -> <<"tcp", "tls">>
               [] k = "Quic" -> <<"resolve", "quic", "stream">>
               [] OTHER      -> <<k>>

\* The root certificates the peer's is checked against: those of webpki_roots for
\* TLS, none for QUIC.
Roots(s) == IF s = "tls" THEN {"public"} ELSE {}

Passes(s) == CASE s = "tcp"             -> net.tcp = "accepts"
               [] s \in {"tls", "quic"} -> net.peer \in Roots(s)
               [] s = "Unix"            -> Platform = "unix" /\ net.tcp = "accepts"
               [] s = "NamedPipe"       -> Platform = "windows" /\ net.tcp = "accepts"
               [] OTHER                 -> TRUE

\* A TLS handshake the peer does not answer is waited for without end; the
\* system and quinn give the other stages up.
Hangs(s) == s = "tls" /\ net.peer = "silent"

Dialling == doing \in {"dial", "fallback"} /\ stage # <<>>
StagePasses == /\ Dialling /\ Passes(Head(stage)) /\ stage' = Tail(stage)
               /\ UNCHANGED <<options, net, doing, tries, pauses, result>>

DialOk   == doing \in {"dial", "fallback"} /\ stage = <<>>
DialFails == Dialling /\ ~Passes(Head(stage)) /\ ~Hangs(Head(stage))

-------------------------------------------------------------------------------
(* connect_with_backoff *)

Least(a, b) == IF a <= b THEN a ELSE b

\* The powers of the multiplier, up to the tenth, as fractions.
Multiplied(f) == <<MultiplierNum * f[1], MultiplierDen * f[2]>>
Factor[exp \in 0..10] == IF exp = 0 THEN <<1, 1>> ELSE Multiplied(Factor[exp - 1])

\* The initial delay times a fraction, rounded to a unit by Duration::from_secs_f64.
Scaled(f) == (2 * (InitialDelay * f[1]) + f[2]) \div (2 * f[2])

\* The first attempt is made at once; the variant makes the second so as well.
ComputeDelayLate(n) ==
  IF n <= 2 THEN 0
  ELSE Least(Scaled(Factor[Least(n - 3, 10)]), MaxDelay)
ComputeDelay(n) ==
  IF n <= 1 THEN 0
  ELSE Least(Scaled(Factor[Least(n - 2, 10)]), MaxDelay)

\* The pause of the next attempt, Reconnecting if there is one, and the dial.
NextAttempt == /\ caller = "loop" /\ doing = "pause" /\ tries < MaxAttempts
               /\ tries' = tries + 1
               /\ pauses' = Append(pauses, ComputeDelay(tries + 1))
               /\ doing' = "dial" /\ stage' = Stages(kind)
               /\ UNCHANGED <<options, net, result>>

TransportUp == /\ caller = "loop" /\ DialOk /\ doing' = "handshake"
               /\ UNCHANGED <<options, net, tries, stage, pauses, result>>

\* The limit counts attempts and is looked at after one; Some(0) allows the first.
LastAttempt == \E max \in limit : tries >= max

\* The transport's error or the handshake's: refusal, timeout, a closed or broken
\* connection.
AttemptFails == /\ caller = "loop" /\ (DialFails \/ doing = "handshake")
                /\ IF LastAttempt THEN doing' = "stopped" /\ result' = "error"
                   ELSE doing' = "pause" /\ UNCHANGED result
                /\ stage' = <<>>
                /\ UNCHANGED <<options, net, tries, pauses>>

\* CONNACK; the recovery that follows has no error to return.
Accepted == /\ doing = "handshake" /\ doing' = "online" /\ tries' = 0 /\ result' = "ok"
            /\ UNCHANGED <<options, net, stage, pauses>>

\* drive_connection returns an error; the network may have changed since.
ConnectionDrops == /\ caller = "loop" /\ doing = "online"
                   /\ doing' = IF enabled = "yes" THEN "pause" ELSE "stopped"
                   /\ net' \in Nets /\ pauses' = <<>> /\ result' = "none"
                   /\ UNCHANGED <<options, tries, stage>>

-------------------------------------------------------------------------------
(* SmartTransport::connect *)

SmartConnect == /\ caller = "smart" /\ doing = "pause"
                /\ doing' = "dial" /\ stage' = Stages(kind)
                /\ UNCHANGED <<options, net, tries, pauses, result>>

SmartOk == /\ caller = "smart" /\ DialOk /\ doing' = "stopped" /\ result' = "ok"
           /\ UNCHANGED <<options, net, tries, stage, pauses>>

\* attempt_fallback, to the same host and port; the variant leaves a dial that
\* took too long at its error.
FallsBackOnError(reason) == kind = "Quic" /\ reason = "error"
FallsBack(reason) == kind = "Quic"

\* The primary dial fails, or is dropped when its time is over.
PrimaryFails(reason) ==
  /\ caller = "smart" /\ doing = "dial"
  /\ reason = "error" => DialFails
  /\ IF FallsBack(reason)
       THEN doing' = "fallback" /\ stage' = Stages("Tcp") /\ UNCHANGED result
       ELSE doing' = "stopped" /\ stage' = <<>> /\ result' = "error"
  /\ UNCHANGED <<options, net, tries, pauses>>

\* The fallback has no time limit of its own.
FallbackFails == /\ caller = "smart" /\ doing = "fallback" /\ DialFails
                 /\ doing' = "stopped" /\ stage' = <<>> /\ result' = "error"
                 /\ UNCHANGED <<options, net, tries, pauses>>

-------------------------------------------------------------------------------
DialInit == /\ caller \in {"loop", "smart"}
            /\ enabled \in {"yes", "no"} /\ limit \in RetryLimits
            /\ net \in Nets /\ kind = "none" /\ doing = "begin" /\ tries = 0
            /\ stage = <<>> /\ pauses = <<>> /\ result = "none"

UseUri(uri) == /\ doing = "begin"
               /\ \/ \E k \in FromUri(uri) : kind' = k /\ doing' = "pause" /\ UNCHANGED result
                  \/ /\ FromUri(uri) = {} /\ doing' = "stopped" /\ result' = "error"
                     /\ UNCHANGED kind
               /\ UNCHANGED <<caller, enabled, limit, net, tries, stage, pauses>>

\* options.target is set by the program.
UseTarget(k) == /\ doing = "begin" /\ kind' = k /\ doing' = "pause"
                /\ UNCHANGED <<caller, enabled, limit, net, tries, stage, pauses, result>>

DialNext == \/ \E uri \in Uris : UseUri(uri)
            \/ \E k \in TargetKinds : UseTarget(k)
            \/ StagePasses \/ NextAttempt \/ TransportUp \/ AttemptFails \/ Accepted
            \/ ConnectionDrops \/ SmartConnect \/ SmartOk \/ FallbackFails
            \/ \E reason \in {"error", "timeout"} : PrimaryFails(reason)

\* The stages of a transport end, the five seconds too, and connect is polled.
DialFairness == /\ WF_dialVars(StagePasses) /\ WF_dialVars(SmartConnect) /\ WF_dialVars(SmartOk)
                /\ WF_dialVars(PrimaryFails("timeout"))

DialSpec == DialInit /\ [][DialNext]_dialVars /\ DialFairness

-------------------------------------------------------------------------------
\* One outage is one backoff: its first dial is made at once, its second after
\* initial_delay or max_delay if that is less, and later ones after pauses that
\* never shrink, unless the multiplier is below one, when they never grow; none is
\* above max_delay.  max_retries bounds the dials over refused transports and refused
\* handshakes together.  A handshake that succeeds begins the next outage's anew.
Paced(earlier, later) ==
  /\ MultiplierNum >= MultiplierDen => earlier <= later
  /\ MultiplierNum <= MultiplierDen => later <= earlier
BackedOff ==
  /\ \A i \in DOMAIN pauses :
       /\ i = 1 => pauses[i] = 0
       /\ i = 2 => pauses[i] = Least(InitialDelay, MaxDelay)
       /\ i > 2 => Paced(pauses[i - 1], pauses[i]) /\ pauses[i] <= MaxDelay
  /\ \A max \in limit : Len(pauses) <= (IF max > 1 THEN max ELSE 1)

\* Where QUIC is dropped on the way, or the broker does not speak it, and its
\* port takes TCP, SmartTransport connects.
SmartConnects ==
  (caller = "smart" /\ doing = "dial" /\ kind = "Quic" /\ net.tcp = "accepts") ~> result = "ok"

===============================================================================
