--------------------------- MODULE MCDownloader ---------------------------
(* A file of two parts and one of one part, for module Downloader; when    *)
(* the request is made again the first has become shorter.                 *)
EXTENDS Downloader, TLC

CONSTANTS f1, f2

PartsOf == <<(f1 :> 2) @@ (f2 :> 1), (f1 :> 1) @@ (f2 :> 1)>>
=============================================================================
