\* Crates of one or two items, with all annotations; expressions of up to four operands.
SPECIFICATION Spec
CONSTANT Crates <- MCCrates
INVARIANTS NoPanic RefusedForAReason MeansWhatIsWritten
