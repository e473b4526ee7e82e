--------------------------- MODULE MCBrowserAssets ---------------------------
(***************************************************************************)
(* Instances of BrowserAssets: what the content server has at first.       *)
(***************************************************************************)
EXTENDS BrowserAssets

With(names) == [n \in Name |-> IF n \in names THEN Official ELSE None]

\* Nothing; only the first installer, with its pak; only the second one, with a
\* map.
MCSeeds == {With({}), With({"demo", "pak0"}), With({"point", "map"})}
==============================================================================
