\* Three jobs of any kind, with and without an older output in the way, or in the folder they take as it is.
CONSTANTS
  Tasks = {j1, j2, j3}
  Kinds = {"archive", "volumes", "bulk", "shell", "inline", "here"}
  Old = Old
  Last = 4
SYMMETRY Symmetry
SPECIFICATION NamesSpec
INVARIANTS NamesAreApart DeliveredIsKept NothingLeftReserved
PROPERTIES OldIsKept
