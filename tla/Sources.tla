------------------------------ MODULE Sources ------------------------------
(***************************************************************************)
(* What fetching a document can fail with (SourceDocument, app/sources.py) *)
(* and which error of app/errors.py it is raised as: the part of the       *)
(* taxonomy that both OCR backends share.                                  *)
(***************************************************************************)

\* TransientAgentError, AgentError and BackendConfigurationError of
\* app/errors.py, and any other exception, which nothing translates.
ErrorClass == {"transient", "agent", "configuration", "uncaught"}

\* The schemes read_bytes has a loader for; a bare path is a file.
Supported == {"file", "http", "https", "s3"}

\* urlparse refuses some uris: an unbalanced bracket in the host, say.
Scheme == Supported \cup {"other", "unparsable"}

\* What reading each kind of source meets.  A connection can break before the
\* response or while its body is read; a path or a uri can hold characters
\* that the libraries refuse.  Missing credentials show when S3 is asked, a
\* bad region or profile when the client is made.
FaultsOf(scheme) ==
  CASE scheme = "file" ->
         {"FileNotFoundError", "IsADirectoryError", "permanent errno", "other errno",
          "null byte in path"}
    [] scheme \in {"http", "https"} ->
         {"HTTP 404", "HTTP 408", "HTTP 425", "HTTP 429", "HTTP 503", "URLError",
          "TimeoutError", "connection reset", "InvalidURL"}
    [] scheme = "s3" ->
         {"malformed uri", "no boto3", "NoSuchKey", "NoSuchBucket", "404", "AccessDenied",
          "InvalidAccessKeyId", "SignatureDoesNotMatch", "SlowDown", "BotoCoreError",
          "NoCredentialsError", "no client"}
    [] scheme = "unparsable" -> {"unparsable uri"}
    [] OTHER -> {"unsupported scheme"}

\* What is found wrong once the bytes are there, whatever the scheme.
ContentFaults == {"too large", "empty"}

Transient ==
  {"other errno", "HTTP 408", "HTTP 425", "HTTP 429", "HTTP 503", "URLError",
   "TimeoutError", "SlowDown", "BotoCoreError", "NoCredentialsError"}

Denied == {"AccessDenied", "InvalidAccessKeyId", "SignatureDoesNotMatch"}

\* What no except clause names, or nothing tries, escapes.
Escaping ==
  {"connection reset", "InvalidURL", "null byte in path", "no client", "unparsable uri"}

\* The class a fault is raised as.  NoCredentialsError is a BotoCoreError.
RaiseForSource(fault) ==
  IF fault \in Transient THEN "transient"
  ELSE IF fault \in Denied \cup {"no boto3"} THEN "configuration"
  ELSE IF fault \in Escaping THEN "uncaught"
  ELSE "agent"

\* The classes reading a document of a scheme can end in.
SourceErrors(scheme) ==
  {RaiseForSource(f) : f \in FaultsOf(scheme)
                          \cup (IF scheme \in Supported THEN ContentFaults ELSE {})}
=============================================================================
