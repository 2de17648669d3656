-------------------------- MODULE MCFlatBlobAccess --------------------------
(* Model-checked instances of FlatBlobAccess.                              *)
EXTENDS FlatBlobAccess

\* A Content Addressable Storage with an archive and a file contained in it.
MCArchiveContents == [archive |-> {<<"header", "file">>}, file |-> {<<"file">>}]
MCArchiveSlices == [archive |-> <<[key |-> "file", offset |-> 1]>>, file |-> <<>>]

\* An Action Cache with one action whose result is updated once.
MCActionContents == [action |-> {<<"first">>, <<"second">>}]
MCActionSlices == [action |-> <<>>]
MCQueries == {{"archive", "file"}}
MCActionQueries == {{"action"}}
============================================================================
