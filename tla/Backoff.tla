------------------------------ MODULE Backoff -------------------------------
(***************************************************************************)
(* The delays between attempts to connect: BtcClient.Reconnect shifts its  *)
(* base delay by the number of failed attempts; BtcClient.ConnectWithRetry *)
(* and EvmClient.SubscribeWithRetry double theirs.  A time.Duration is a   *)
(* signed integer, 64 bits wide in Go, that wraps; DurationBits stands for *)
(* 64.                                                                     *)
(***************************************************************************)
EXTENDS Integers

CONSTANTS
    DurationBits, BaseDelay, MaxDelay,
    MaxAttempts      \* bound: failed attempts in a row

ASSUME BackoffAssumption ==
    /\ DurationBits \in Nat \ {0, 1} /\ MaxAttempts \in Nat
    /\ BaseDelay \in Nat \ {0} /\ BaseDelay < 2 ^ (DurationBits - 1)
    /\ MaxDelay \in Nat /\ MaxDelay < 2 ^ (DurationBits - 2)

(* Powers of two are the result of doubling: arithmetic that the provers   *)
(* have no rule for.                                                       *)
ASSUME PowersOfTwo ==
    \A n \in 0..(DurationBits + MaxAttempts) :
        2 ^ n \in Nat \ {0} /\ 2 ^ (n + 1) = 2 * 2 ^ n

VARIABLES
    reconnectAttempts,   \* failed attempts since the last connection
    delay,               \* what Reconnect slept for last
    retryInterval,       \* of the loops that double
    subscriptions        \* subscriptions opened by SubscribeWithRetry

backoffVars == <<reconnectAttempts, delay, retryInterval, subscriptions>>

Duration(n) ==
    LET m == n % 2 ^ DurationBits
    IN  IF m < 2 ^ (DurationBits - 1) THEN m ELSE m - 2 ^ DurationBits

BackoffInit ==
    /\ reconnectAttempts = 0 /\ delay = 0
    /\ retryInterval = BaseDelay /\ subscriptions = 0

(* Deviation used to test the properties: without the cap.                 *)
MutReconnectDelay ==
    Duration(BaseDelay * Duration(2 ^ reconnectAttempts))

(* The shift gives 0 once the one is moved out of the word.                *)
ReconnectDelay ==
    LET shifted == Duration(2 ^ reconnectAttempts)
        wanted  == Duration(BaseDelay * shifted)
    IN  IF wanted > MaxDelay THEN MaxDelay ELSE wanted

(* Reconnect; time.Sleep of a negative duration returns at once.           *)
ReconnectAfter(connected) ==
    /\ connected \/ reconnectAttempts < MaxAttempts
    /\ delay' = ReconnectDelay
    /\ reconnectAttempts' = IF connected THEN 0 ELSE reconnectAttempts + 1
    /\ UNCHANGED <<retryInterval, subscriptions>>

(* One round of ConnectWithRetry that fails.                               *)
ConnectFails ==
    /\ retryInterval' = IF retryInterval < MaxDelay
                        THEN Duration(retryInterval * 2) ELSE retryInterval
    /\ UNCHANGED <<reconnectAttempts, delay, subscriptions>>

(* One round of SubscribeWithRetry: whether or not SubscribeAllEvents      *)
(* succeeds, the loop sleeps, doubles its interval and subscribes again.   *)
SubscribeAllEvents(succeeds) ==
    /\ succeeds => subscriptions < MaxAttempts
    /\ subscriptions' = IF succeeds THEN subscriptions + 1 ELSE subscriptions
    /\ retryInterval' = IF retryInterval < MaxDelay
                        THEN Duration(retryInterval * 2) ELSE retryInterval
    /\ UNCHANGED <<reconnectAttempts, delay>>

BackoffNext ==
    \/ \E ok \in BOOLEAN : ReconnectAfter(ok) \/ SubscribeAllEvents(ok)
    \/ ConnectFails

BackoffSpec == BackoffInit /\ [][BackoffNext]_backoffVars

(* As long as the shifted delay fits the word, Reconnect sleeps for the    *)
(* base delay doubled once for every failed attempt, up to the cap: the    *)
(* arithmetic of its 64-bit duration is the one of numbers.  Afterwards    *)
(* the product wraps, and only the cap is left (see ReconnectWaits).       *)
ReconnectBacksOff ==
    LET ideal == BaseDelay * 2 ^ reconnectAttempts
    IN  /\ delay <= MaxDelay
        /\ ideal < 2 ^ (DurationBits - 1) =>
            ReconnectDelay = IF ideal > MaxDelay THEN MaxDelay ELSE ideal

(* "Reconnect attempts to reconnect to the electrum server with            *)
(* exponential backoff" (electrum.go): after a failed attempt it has       *)
(* waited, at least for the base delay.                                    *)
ReconnectWaits ==
    reconnectAttempts > 0 => delay >= BaseDelay

(* "Exponential backoff with cap" of the loops that double (electrum.go,   *)
(* evm/client.go), whose cap is the "Maximum retry interval".              *)
RetryIntervalCapped == retryInterval <= MaxDelay
=============================================================================
