------------------------------- MODULE Providers -------------------------------
(***************************************************************************)
(* What the adapters of VirusTotal and urlscan                             *)
(* (backend/investigation/providers) make of the answers to their HTTP     *)
(* requests: a result that enrichment_api stores, or a ProviderError, which *)
(* it stores as an error.                                                  *)
(*                                                                         *)
(* A reply is what the adapter can tell apart in it.  The counts, labels,  *)
(* dates and links of a report are carried along and left out here.        *)
(***************************************************************************)

Names == {"virustotal", "urlscan"}

\* A JSON object.  job: the id of the scan it is about, or that it accepts;
\* url: task.url is the target; found: data or results, empty, a report or
\* something else; stage and visibility: those of the scan.
Documents == [job : {"asked", "other", "malformed"}, url : BOOLEAN,
              found : {"nothing", "report", "odd"},
              stage : {"queued", "completed", "odd"},
              visibility : {"absent", "asked", "other"}]

NotFound == [code |-> "404"]
Gone == [code |-> "410"]
Failed == [code |-> "failed"]

\* ProviderHTTP.request: a redirect, any other status, a body that is too
\* large, badly compressed or not an object, a timeout and a network error all
\* raise ProviderError.
Replies == Documents \cup {NotFound, Gone, Failed}

\* external: it names the scan.  visibility: what its metadata says about the
\* visibility, "silent" when the key is missing.
Results == [status : {"pending", "available", "unknown", "unavailable", "error"},
            external : BOOLEAN,
            visibility : {"silent", "absent", "asked", "other"}]

Result(status, external, visibility) ==
  [status |-> status, external |-> external, visibility |-> visibility]

ProviderError == Result("error", FALSE, "silent")

----------------------------------------------------------------------------
(* virustotal.py                                                           *)

\* analysis: a poll asks for one, and only an analysis can be polled again.
VirusTotalReport(reply, analysis) ==
  IF reply.found = "report" THEN Result("available", analysis, "silent")
                            ELSE ProviderError

VirusTotalLookup(reply) ==
  CASE reply = Failed             -> ProviderError
    [] reply \in {NotFound, Gone} -> Result("unknown", FALSE, "silent")
    [] OTHER                      -> VirusTotalReport(reply, FALSE)

VirusTotalSubmit(reply) ==
  IF reply \in Documents /\ reply.job # "malformed"
  THEN Result("pending", TRUE, "silent") ELSE ProviderError

VirusTotalPoll(reply) ==
  CASE reply = Failed             -> ProviderError
    [] reply \in {NotFound, Gone} -> Result("unavailable", TRUE, "silent")
    [] OTHER ->
         CASE reply.job = "asked" /\ reply.stage = "queued" ->
                Result("pending", TRUE, "silent")
           [] reply.job = "asked" /\ reply.stage = "completed" ->
                VirusTotalReport(reply, TRUE)
           [] OTHER -> ProviderError

----------------------------------------------------------------------------
(* urlscan.py                                                              *)

UrlscanReport(reply) ==
  IF reply.url THEN Result("available", TRUE, reply.visibility) ELSE ProviderError

\* A scan that is not there yet is pending.
UrlscanPoll(reply) ==
  CASE reply = Failed   -> ProviderError
    [] reply = NotFound -> Result("pending", TRUE, "silent")
    [] reply = Gone     -> Result("unavailable", TRUE, "silent")
    [] OTHER -> IF reply.job = "asked" THEN UrlscanReport(reply) ELSE ProviderError

\* A search, and a second request for the scan it found.
UrlscanLookup(reply, second) ==
  CASE reply = Failed             -> ProviderError
    [] reply \in {NotFound, Gone} -> Result("unknown", FALSE, "silent")
    [] OTHER ->
         CASE reply.found = "nothing" -> Result("unknown", FALSE, "silent")
           [] reply.found = "report" /\ reply.url /\ reply.job # "malformed" ->
                UrlscanPoll(second)
           [] OTHER -> ProviderError

\* Accepted with another visibility than the one asked for: an error that
\* keeps the id of the scan.
UrlscanSubmit(reply) ==
  IF reply \in Documents /\ reply.job # "malformed"
  THEN IF reply.visibility = "other" THEN Result("error", TRUE, "other")
                                     ELSE Result("pending", TRUE, "asked")
  ELSE ProviderError

----------------------------------------------------------------------------

\* lookup, submit and poll of enrichment.py, and get_provider.
Answer(name, kind, reply, second) ==
  IF name = "virustotal"
  THEN CASE kind = "lookup" -> VirusTotalLookup(reply)
         [] kind = "submit" -> VirusTotalSubmit(reply)
         [] OTHER           -> VirusTotalPoll(reply)
  ELSE CASE kind = "lookup" -> UrlscanLookup(reply, second)
         [] kind = "submit" -> UrlscanSubmit(reply)
         [] OTHER           -> UrlscanPoll(reply)

\* Everything a provider can answer to a request.
Answers ==
  {[from |-> name, to |-> kind, result |-> Answer(name, kind, reply, second)] :
     name \in Names, kind \in {"lookup", "submit", "poll"},
     reply \in Replies, second \in Replies}
=============================================================================
