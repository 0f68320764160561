-------------------------- MODULE MCMapFolderTree --------------------------
(* Model checking of MapFolderTree on a tree of three levels, in which one *)
(* directory below the top repeats the name "msg".                         *)
EXTENDS MapFolderTree, TLC

CONSTANTS inbox, sent, archive, old, older, msg

MCDirs    == {inbox, sent, archive, old, older, msg}
MCUp      == inbox :> Top @@ sent :> Top @@ msg :> Top
             @@ archive :> inbox @@ old :> inbox @@ older :> archive
MCSkipped == {msg}

============================================================================
