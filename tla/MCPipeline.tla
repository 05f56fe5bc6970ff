----------------------------- MODULE MCPipeline -----------------------------
(* Listings for the pipeline's runs.  Names of records are model values.   *)
EXTENDS Pipeline

CONSTANTS a, b, c, d

\* An id the source lists twice, on one page or on two as the listing grows.
NamesakeEntries == <<a, a, b, c, d>>

\* An id the source lists twice on a page, an entry without an id, and one
\* past the source's cap.
RepeatedEntries == <<a, b, a, Blank, c>>
=============================================================================
