---------------------------- MODULE MCSwaWindow -----------------------------
(* Small deployments for SwaWindow.                                          *)
EXTENDS SwaWindow, TLC

CONSTANTS text, image

Deployment(drafter, drafts, images, chunks) ==
  [drafter |-> drafter, drafts |-> drafts, images |-> images, chunks |-> chunks]
Deployments == {Deployment("none", 0, TRUE, {1, 6}),
                Deployment("mtp", 3, TRUE, {1, 6}),
                Deployment("dspark", 2, FALSE, {6})}

Prompts    == (text :> 2) @@ (image :> 7)
ImageSpans == (text :> {}) @@ (image :> {<<1, 5>>})
=============================================================================
