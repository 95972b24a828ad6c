------------------------------ MODULE TlsCert ------------------------------
(***************************************************************************)
(* How NewRegistryServer comes by its certificate at every start: the      *)
(* operator's pair, else the pair a former start has saved, else a new one *)
(* of its own, which it saves for the next start, one file after the other.*)
(* A pair is the number of the start's own pairs it is, in the order they  *)
(* were made.  NodeLifecycle composes these steps with the rest of a start.*)
(***************************************************************************)
EXTENDS Naturals

CONSTANTS
    OwnPairs,   \* what a start may find of the pair the operator configures
    MaxYears    \* bound on the years that pass

ASSUME TlsAssumption == OwnPairs \subseteq {"loads", "fails", "none"} /\ MaxYears \in Nat

VARIABLES
    serving,   \* "off", the next step of the start, or "listening"
    certFile,  \* cert.pem: the pair its certificate belongs to, or Nothing
    keyFile,   \* key.pem, in the same way
    made,      \* pairs made so far
    served,    \* the pair of the TLS configuration: one that was made, or Nothing
    expired,   \* pairs up to this one are older than a year
    years

pair == <<certFile, keyFile>>
tls  == <<serving, pair, made, served, expired, years>>

\* No file or part of one; as the pair that is served, the operator's or none.
Nothing == 0

SaveSteps == {"openCert", "writeCert", "openKey", "writeKey"}

-----------------------------------------------------------------------------
(* An operator whose name has an underscore is the next one with a          *)
(* programming error in it; no action uses it.                              *)

\* LoadX509KeyPair: both files are whole, and the key is the certificate's.
\* The date is not looked at.
Loads == certFile # Nothing /\ certFile = keyFile

\* What a former start has saved is used again.
Reusable_never == FALSE
Reusable       == Loads

\* The certificate's file is complete before the key's is touched.
SaveOrder == [openCert |-> "writeCert", writeCert |-> "openKey",
              openKey  |-> "writeKey",  writeKey  |-> "listening"]

TlsInit ==
    /\ serving = "off" /\ certFile = Nothing /\ keyFile = Nothing
    /\ made = 0 /\ served = Nothing /\ expired = 0 /\ years = 0

\* The process is gone; its files stay.
TlsOff == serving' = "off" /\ served' = Nothing /\ UNCHANGED <<pair, made, expired, years>>

\* The start has come to NewRegistryServer.
TlsBegin == serving' = "choose" /\ UNCHANGED <<pair, made, served, expired, years>>

-----------------------------------------------------------------------------
UseConfigured ==
    /\ serving = "choose" /\ "loads" \in OwnPairs
    /\ serving' = "listening" /\ served' = Nothing
    /\ UNCHANGED <<pair, made, expired, years>>

\* None is configured, or it does not load.
NoOwnPair == OwnPairs \cap {"fails", "none"} # {}

UseSaved ==
    /\ serving = "choose" /\ NoOwnPair /\ Reusable
    /\ serving' = "listening" /\ served' = certFile
    /\ UNCHANGED <<pair, made, expired, years>>

Generate ==
    /\ serving = "choose" /\ NoOwnPair /\ ~Reusable
    /\ serving' = "openCert"
    /\ made' = made + 1 /\ served' = made'
    /\ UNCHANGED <<pair, expired, years>>

\* os.WriteFile truncates a file, then writes it.
SavePair ==
    /\ serving \in SaveSteps
    /\ certFile' = CASE serving = "openCert"  -> Nothing
                     [] serving = "writeCert" -> served
                     [] OTHER -> certFile
    /\ keyFile' = CASE serving = "openKey"  -> Nothing
                    [] serving = "writeKey" -> served
                    [] OTHER -> keyFile
    /\ serving' = SaveOrder[serving]
    /\ UNCHANGED <<made, served, expired, years>>

\* A save that fails is only logged.
SavePairFails ==
    /\ serving \in SaveSteps
    /\ serving' = "listening"
    /\ UNCHANGED <<pair, made, served, expired, years>>

\* A start takes less than a year.
YearPasses ==
    /\ serving \in {"off", "listening"} /\ years < MaxYears
    /\ years' = years + 1 /\ expired' = made
    /\ UNCHANGED <<serving, pair, made, served>>

TlsStart == UseConfigured \/ UseSaved \/ Generate \/ SavePair \/ SavePairFails

-----------------------------------------------------------------------------
TlsTypeOK ==
    /\ serving \in {"off", "choose", "listening"} \cup SaveSteps
    /\ made \in Nat /\ expired \in 0 .. made /\ years \in 0 .. MaxYears
    /\ certFile \in 0 .. made /\ keyFile \in 0 .. made /\ served \in 0 .. made

\* A pair that loads stays as it is, through every later start, crash and failed
\* save: who has trusted the certificate need not trust another.
PairKept == [][Loads => UNCHANGED pair]_tls

\* When the files hold a pair that loads, it is the one that is served, unless
\* the operator's is: no start serves one pair and leaves another for the next.
PairOnDiskIsServed ==
    (serving = "listening" /\ Loads /\ served # Nothing) => served = certFile

-----------------------------------------------------------------------------
\* README on self-signed certificates: valid for a year, reused by every start,
\* and never to be renewed by hand.  So no start begins to serve one whose year
\* is over.
StartsWithValidPair ==
    [][serving # "listening" /\ serving' = "listening" /\ served' # Nothing
          => served' > expired]_tls
=============================================================================
