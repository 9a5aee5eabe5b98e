-------------------------------- MODULE MCFs --------------------------------
EXTENDS Fs, TLC

CONSTANTS p1, p2, f1, f2, i1, i2, i3, i4

Do(o, path) == [op |-> o, path |-> path, new |-> <<>>]
Do2(o, path, new) == [op |-> o, path |-> path, new |-> new]

\* One process makes and removes a directory and names in it while the other
\* works inside the directory.
Removal ==
  p1 :> {Do("mkdir", <<"/", "a">>), Do("unlink", <<"/", "a">>),
         Do("unlink", <<"/", "a", "b">>), Do2("link", <<"a", "b">>, <<"/", "b">>)} @@
  p2 :> {Do("chdir", <<"/", "a">>), Do("create", <<"b">>), Do("unlink", <<"b">>)}

\* One process removes a directory and the one above it while the other, in the
\* first, goes up.
Above ==
  p1 :> {Do("mkdir", <<"a">>), Do("mkdir", <<"a", "b">>), Do("unlink", <<"a", "b">>),
         Do("unlink", <<"a">>)} @@
  p2 :> {Do("chdir", <<"/", "a", "b">>), Do("chdir", <<"..">>)}

\* One process opens a symbolic link while the other removes what it refers to
\* and makes it a device, a directory, or a link back to the first.
Symlinks ==
  p1 :> {Do2("symlink", <<"a">>, <<"/", "b">>), Do("open", <<"a">>)} @@
  p2 :> {Do2("symlink", <<"b">>, <<"a">>), Do("unlink", <<"b">>),
         Do("mkdir", <<"b">>), Do("nofollow", <<"b">>)}

\* Devices are made and opened; both processes may hold a file that is gone.
Devices ==
  p1 :> {Do("mknod", <<"a">>), Do("unlink", <<"a">>), Do("open", <<"a">>)} @@
  p2 :> {Do("create", <<"a">>), Do("rdonly", <<"a">>), Do("chdir", <<"a">>)}

\* A disk no larger than the inode table, and one with an inode more.
Workloads == [ninodes : {NINODE}, calls : {Removal, Above, Symlinks}]
        \cup [ninodes : {NINODE + 1}, calls : {Devices}]

\* The numbers but the root's, and the file structures, are interchangeable.
Symmetry == Permutations({i2, i3, i4}) \cup Permutations(Files)
=============================================================================
