---------------------------- MODULE MCCopyFile -----------------------------
(* Small instances of CopyFile. *)
EXTENDS CopyFile

\* Nothing, less than a buffer, a full one, one byte more, nearly two, two, and one more.
SizesAround == {0, 1, MAX_BUFFER_FILE_SIZE, MAX_BUFFER_FILE_SIZE + 1,
                2 * MAX_BUFFER_FILE_SIZE - 1, 2 * MAX_BUFFER_FILE_SIZE,
                2 * MAX_BUFFER_FILE_SIZE + 1}

=============================================================================
