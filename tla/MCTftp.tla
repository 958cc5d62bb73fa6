------------------------------- MODULE MCTftp -------------------------------
(* Files without data, of a few blocks, and that wrap the block number. *)
EXTENDS Tftp

MCDownloads == {<<"tftp", 0>>, <<"tftp", 4>>, <<"tftp", 11>>, <<"tftm", 5>>, <<"tftm", 12>>,
                <<"mtftp", 5>>, <<"mtftp", 9>>}
=============================================================================
