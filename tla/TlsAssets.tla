----------------------------- MODULE TlsAssets -----------------------------
(***************************************************************************)
(* GetTlsCertAndKeyPath of pkg/bootstrap/handlers/tls: the self-signed CA  *)
(* and server certificate are generated in the PKI directory of the        *)
(* configuration and copied to the output directory, unless the three      *)
(* output files are there.  The process may die between any two steps,     *)
(* input and output may fail, somebody may delete an output file, and the  *)
(* service is started again, perhaps with another configuration.           *)
(*                                                                         *)
(* A key is known by a number.  A file is <<"none">>, <<"torn">> (created  *)
(* or truncated and not yet written), <<"key", k>>, or a certificate for   *)
(* key k signed with key i: <<"cert", k, i>>.                              *)
(***************************************************************************)
EXTENDS Naturals

CONSTANTS
  MaxStarts,  \* bound: calls of GetTlsCertAndKeyPath
  MaxKeys     \* bound: keys generated

\* One key is that of the CA that may be there from the start.
ASSUME TlsAssumption == MaxStarts \in Nat /\ MaxKeys \in Nat \ {0}

PkiFiles == {"caKey", "caCert", "tlsKey", "tlsCert"}
Outputs == {"ca", "key", "cert"}

VARIABLES
  tlsPc,   \* where the call is; "down" without a process
  newCA,   \* create_new_rootca
  caService, \* the working directory is called "ca"
  valid,   \* the configuration file can be read and its values are in range
  pkiDir,  \* the PKI directory exists
  disk,    \* the contents of each file
  keys,    \* keys generated so far
  private, \* the private key in memory
  opened,  \* the file the call is at has been created, and not written yet
  result,  \* what the call returned: "environment", "exist", "generated", "error"
  starts,
  ioError, \* history: a step has failed in this call
  cut      \* history: copying was cut short, and has not been completed since

settings == <<newCA, caService, valid>>
tlsVars == <<tlsPc, settings, pkiDir, disk, keys, private, opened, result, starts, ioError, cut>>

None == <<"none">>
Torn == <<"torn">>

\* A CA may have been put there, which is needed if none is to be created; or
\* only a part of one.
TlsInit ==
  /\ tlsPc = "down" /\ keys = 1 /\ private = 0 /\ opened = FALSE /\ result = "none" /\ starts = 0
  /\ ioError = FALSE /\ cut = FALSE
  /\ newCA \in BOOLEAN /\ caService \in BOOLEAN /\ valid \in BOOLEAN /\ pkiDir \in BOOLEAN
  /\ \E there \in SUBSET {"caKey", "caCert"} :
       /\ there # {} => pkiDir
       /\ disk = [f \in PkiFiles \union Outputs |->
                    CASE f \in there /\ f = "caKey"  -> <<"key", 1>>
                      [] f \in there /\ f = "caCert" -> <<"cert", 1, 1>>
                      [] OTHER                       -> None]

TlsGoto(from, to) == tlsPc = from /\ tlsPc' = to

Return(how) ==
  /\ tlsPc' = "returned" /\ result' = how
  /\ private' = 0 /\ opened' = FALSE

-----------------------------------------------------------------------------
(* generateCertAndKey, genTLSAssets *)

\* genTLSAssets reads the configuration file in each call.
Start ==
  /\ tlsPc \in {"down", "returned"} /\ starts < MaxStarts
  /\ tlsPc' = "check" /\ starts' = starts + 1 /\ result' = "none" /\ ioError' = FALSE
  /\ newCA' \in BOOLEAN /\ valid' \in BOOLEAN
  /\ UNCHANGED <<caService, pkiDir, disk, keys, private, opened, cut>>

Exists(f) == disk[f] # None

\* GetTlsCertAndKeyPath takes both paths from the environment, if it has them.
FromEnvironment ==
  /\ tlsPc = "check"
  /\ Return("environment")
  /\ UNCHANGED <<settings, pkiDir, disk, keys, starts, ioError, cut>>

\* Faulty variant: the certificate and the key are enough.
SkipWithoutCA ==
  /\ tlsPc = "check" /\ Exists("cert") /\ Exists("key")
  /\ Return("exist")
  /\ UNCHANGED <<settings, pkiDir, disk, keys, starts, ioError, cut>>

\* generateCertAndKey only asks whether the three files are there.
Skip ==
  /\ tlsPc = "check" /\ \A f \in Outputs : Exists(f)
  /\ Return("exist")
  /\ UNCHANGED <<settings, pkiDir, disk, keys, starts, ioError, cut>>

\* Without the configuration, with one that NewX509 or NewCertificateSeed
\* cannot use, or without the directory that Verify looks for, it fails.
Rejected ==
  /\ tlsPc = "check" /\ \E f \in Outputs : ~Exists(f)
  /\ ~valid \/ (~newCA /\ ~pkiDir)
  /\ Return("error")
  /\ UNCHANGED <<settings, pkiDir, disk, keys, starts, ioError, cut>>

\* Faulty variant: the CA of the last time stays.
KeepPkiDir ==
  /\ valid /\ newCA /\ \E f \in Outputs : ~Exists(f)
  /\ IF pkiDir
     THEN tlsPc = "check" /\ Return("error")
     ELSE TlsGoto("check", "mkdir") /\ UNCHANGED <<private, opened, result>>
  /\ UNCHANGED <<settings, pkiDir, disk, keys, starts, ioError, cut>>

\* NewCertificateSeed with create_new_rootca: directoryHandler.Create removes
\* the directory ...
RemovePkiDir ==
  /\ valid /\ newCA /\ \E f \in Outputs : ~Exists(f)
  /\ TlsGoto("check", "mkdir")
  /\ pkiDir' = FALSE
  /\ disk' = [f \in DOMAIN disk |-> IF f \in PkiFiles THEN None ELSE disk[f]]
  /\ UNCHANGED <<settings, keys, private, opened, result, starts, ioError, cut>>

\* ... and creates it.
MakePkiDir ==
  /\ keys < MaxKeys
  /\ TlsGoto("mkdir", "caKey")
  /\ pkiDir' = TRUE
  /\ keys' = keys + 1 /\ private' = keys'
  /\ UNCHANGED <<settings, disk, opened, result, starts, ioError, cut>>

\* Without it Verify finds the directory, and rootCertGenerator does nothing.
UseCA ==
  /\ valid /\ ~newCA /\ pkiDir /\ \E f \in Outputs : ~Exists(f)
  /\ TlsGoto("check", "sign")
  /\ UNCHANGED <<settings, pkiDir, disk, keys, private, opened, result, starts, ioError, cut>>

\* os.WriteFile creates or truncates the file, and then writes it.
Write(f, content, to) ==
  /\ tlsPc = f
  /\ disk' = [disk EXCEPT ![f] = IF opened THEN content ELSE Torn]
  /\ opened' = ~opened
  /\ tlsPc' = IF opened THEN to ELSE f
  /\ UNCHANGED <<settings, pkiDir, keys, private, result, starts, ioError, cut>>

\* rootCertGenerator.Generate saves the key and then the certificate.
GenerateRoot ==
  \/ Write("caKey", <<"key", private>>, "caCert")
  \/ Write("caCert", <<"cert", private, private>>, "sign")

\* tlsCertGenerator.Generate reads the CA; x509.CreateCertificate would refuse a
\* CA key that is not the one of the CA certificate.
CAUsable ==
  \E k \in 1 .. keys : disk["caKey"] = <<"key", k>> /\ disk["caCert"] = <<"cert", k, k>>

Sign ==
  /\ IF CAUsable /\ keys < MaxKeys
     THEN /\ TlsGoto("sign", "tlsKey")
          /\ keys' = keys + 1 /\ private' = keys'
          /\ UNCHANGED <<result, opened>>
     ELSE tlsPc = "sign" /\ ~CAUsable /\ Return("error") /\ UNCHANGED keys
  /\ UNCHANGED <<settings, pkiDir, disk, starts, ioError, cut>>

GenerateTls ==
  \/ Write("tlsKey", <<"key", private>>, "tlsCert")
  \/ Write("tlsCert", <<"cert", private, disk["caKey"][2]>>, "ca")

-----------------------------------------------------------------------------
(* copyToTlsFolder *)

\* Where the next file to copy comes from, and what is copied after it; for
\* the CA itself the key is the CA's and there is no certificate.
Source(f) ==
  CASE f = "ca"   -> "caCert"
    [] f = "key"  -> IF caService THEN "caKey" ELSE "tlsKey"
    [] f = "cert" -> "tlsCert"

After(f) ==
  CASE f = "ca" -> "key" [] f = "key" /\ ~caService -> "cert" [] OTHER -> "copied"

\* copyFile removes an old file, creates a new one, and copies.
CopyFile(f) ==
  /\ tlsPc = f
  /\ disk' = [disk EXCEPT ![f] =
                IF opened THEN disk[Source(f)] ELSE IF @ = None THEN Torn ELSE None]
  /\ opened' = (~opened /\ disk[f] = None)
  /\ tlsPc' = IF opened THEN After(f) ELSE f
  /\ cut' = TRUE
  /\ UNCHANGED <<settings, pkiDir, keys, private, result, starts, ioError>>

\* The key is made read-only, and the call returns.
Copied ==
  /\ tlsPc = "copied"
  /\ Return("generated")
  /\ cut' = FALSE
  /\ UNCHANGED <<settings, pkiDir, disk, keys, starts, ioError>>

-----------------------------------------------------------------------------

\* Faulty variant: the file stays open.
FailsWithoutClose ==
  /\ tlsPc \notin {"down", "returned", "check"}
  /\ tlsPc' = "returned" /\ result' = "error"
  /\ private' = 0 /\ UNCHANGED opened
  /\ ioError' = TRUE
  /\ UNCHANGED <<settings, pkiDir, disk, keys, starts, cut>>

\* Any step that reads or writes may fail, and so does generatePrivateKey if
\* neither key scheme is chosen; the call returns the error.
Fails ==
  /\ tlsPc \notin {"down", "returned", "check"}
  /\ Return("error")
  /\ ioError' = TRUE
  /\ UNCHANGED <<settings, pkiDir, disk, keys, starts, cut>>

Crash ==
  /\ tlsPc # "down"
  /\ tlsPc' = "down" /\ private' = 0 /\ opened' = FALSE /\ result' = "none"
  /\ UNCHANGED <<settings, pkiDir, disk, keys, starts, ioError, cut>>

Delete(f) ==
  /\ tlsPc = "down" /\ Exists(f)
  /\ disk' = [disk EXCEPT ![f] = None]
  /\ UNCHANGED <<tlsPc, settings, pkiDir, keys, private, opened, result, starts, ioError, cut>>

TlsNext ==
  \/ Start \/ FromEnvironment \/ Skip \/ Rejected \/ RemovePkiDir \/ MakePkiDir \/ UseCA
  \/ GenerateRoot \/ Sign \/ GenerateTls \/ Copied \/ Fails \/ Crash
  \/ \E f \in Outputs : CopyFile(f) \/ Delete(f)

TlsSpec == TlsInit /\ [][TlsNext]_tlsVars

-----------------------------------------------------------------------------
(* Properties *)

Contents == {None, Torn} \union {<<"key", k>> : k \in 1 .. MaxKeys}
              \union {<<"cert", k, i>> : k, i \in 1 .. MaxKeys}

\* The types of the variables; only the file that is being written is open, and
\* only a call has a key in memory.
TlsTypeOK ==
  /\ tlsPc \in {"down", "check", "mkdir", "sign", "copied", "returned"}
              \union PkiFiles \union Outputs
  /\ disk \in [PkiFiles \union Outputs -> Contents]
  /\ keys \in 1 .. MaxKeys /\ private \in 0 .. keys /\ starts \in 0 .. MaxStarts
  /\ result \in {"none", "environment", "exist", "generated", "error"}
  /\ opened => tlsPc \in DOMAIN disk /\ disk[tlsPc] = Torn
  /\ private # 0 => tlsPc \notin {"down", "check", "returned"}

\* The certificate is for the key, and signed with the key of the CA's.
Consistent ==
  \E k, c \in 1 .. MaxKeys :
    /\ disk["key"] = <<"key", k>>
    /\ disk["cert"] = <<"cert", k, c>>
    /\ disk["ca"] = <<"cert", c, c>>

\* What a call has generated fits together, whatever earlier calls, crashes and
\* deletions have left behind; and so does what a call finds and does not look
\* into, unless copying has been cut short.
AssetsFit ==
  tlsPc = "returned" =>
    /\ result = "generated" /\ ~caService => Consistent
    /\ result = "exist" /\ ~cut => Consistent

\* No crash, failure or deletion leaves something behind that a later call cannot
\* cope with, if it is to create a CA: the only reason for an error is in the
\* configuration or the moment, or there is no whole CA where one is to be used.
NeverStuck ==
  tlsPc = "returned" /\ result = "error" =>
    ioError \/ ~valid \/ (~newCA /\ ~CAUsable)

=============================================================================
