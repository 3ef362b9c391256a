---------------------------- MODULE PipelineSite ----------------------------
(***************************************************************************)
(* Values of the constants of PipelineRun for TLC: a page two levels deep  *)
(* with what derives from it, one private host and the sitemaps of the     *)
(* site; the options that requests use.                                    *)
(***************************************************************************)
CONSTANTS article, twin, twinOfTwin, llms, snapshot, twinSnapshot, llmsSnapshot,
          root, hidden, inside, sitemap

MCURLs == {article, twin, twinOfTwin, llms, snapshot, twinSnapshot, llmsSnapshot,
           root, hidden, inside, sitemap}

MCArchived == {snapshot, twinSnapshot, llmsSnapshot}

\* Only article and its twin are asked for, and have fallbacks.
MCTwin == [u \in MCURLs |-> IF u = article THEN twin ELSE twinOfTwin]
MCLLMs == [u \in MCURLs |-> llms]

MCArchive == [u \in MCURLs |-> CASE u = twin -> twinSnapshot
                                 [] u = llms -> llmsSnapshot
                                 [] OTHER    -> snapshot]

\* Those of the archive are left out; they are probed in the same way.
MCAncestors ==
  [u \in MCURLs |-> IF u \in {article, twin} THEN <<root>> ELSE <<>>]

\* robots.txt names a sitemap it disallows, one on a private host and one that
\* may be fetched.
MCSitemaps == <<hidden, inside, sitemap>>

Option(private, robots, wayback, cached, shape) ==
  [private |-> private, robots |-> robots, wayback |-> wayback, cache |-> cached,
   shape |-> shape]

MCOptions == {Option(TRUE, FALSE, FALSE, TRUE, "markdown"),
              Option(FALSE, TRUE, TRUE, TRUE, "markdown"),
              Option(FALSE, FALSE, FALSE, TRUE, "text")}

\* The options under which Run does most.
MCAllChecks == {Option(FALSE, TRUE, TRUE, TRUE, "markdown")}
=============================================================================
